---- MODULE Spec2Model ----
(***************************************************************************)
(* Model of the Homevolt Local API client                                  *)
(* (custom_components/homevolt_local/api.py): the GET retry engine         *)
(* HomevoltApi._request, the per-endpoint cache of _request_cached, the    *)
(* aggregate fetch get_all_data, the console command channel and the mode  *)
(* setters / set_schedule built on it.                                     *)
(*                                                                         *)
(* The client is an asyncio object: code between two awaits runs without   *)
(* interruption.  An action of this model is therefore the completion of   *)
(* one awaited I/O (session.get, asyncio.sleep, session.post) together     *)
(* with all the code that runs until the next await, or the start of a     *)
(* public operation up to its first await.                                 *)
(*                                                                         *)
(* Time is the monotonic clock in ticks of half a second (Ticks), so that  *)
(* the jittered backoff delays d .. 1.5 d are whole numbers.               *)
(***************************************************************************)
EXTENDS Integers, Sequences, FiniteSets, TLC

VARIABLES
    cache,      \* HomevoltApi._cache: endpoint -> CacheEntry or NoEntry
    session,    \* HomevoltApi._session and HomevoltApi._close_session
    now,        \* time.monotonic(), in ticks
    op,         \* frame of the current (or last) public operation
    req,        \* frame of the current (or last) _request invocation
    pend,       \* the await the client is suspended on: none, GET, sleep, POST
    ret,        \* outcome of the last finished public operation
    trace,      \* history: fetches and console POSTs of the current operation
    rlog,       \* history: GETs and sleeps of the current _request invocation
    lastGet,    \* history: what the latest session.get produced
    count,      \* how many operations, idle periods, ... there have been
    tasks,      \* frames of the _request_cached calls that run concurrently
    hass        \* the host: the coordinator of the config entry and what setup left

vars == <<cache, session, now, op, req, pend, ret, trace, rlog, lastGet, count, tasks, hass>>

(***************************************************************************)
(* Bounds of the model.                                                    *)
(***************************************************************************)
MaxCalls == 2          \* public operations per behaviour
MaxTicks == 2          \* idle periods per behaviour
MaxAllData == 1        \* get_all_data calls per behaviour
MaxRetriesArg == 3     \* largest retry budget passed to _request directly
MaxEntries == 2        \* entries of a schedule given to set_schedule
MaxCloses == 3         \* close() calls per behaviour
MaxBackoffRetries == 7 \* retry budget of the call whose backoff is followed
MaxFields == 3         \* optional fields of an entry whose insertion orders are all tried
MaxTasks == 2          \* _request_cached calls that run concurrently
MaxLongCalls == 3      \* public operations per behaviour where an entry is followed over its life

(***************************************************************************)
(* Program constants.                                                      *)
(***************************************************************************)
ENDPOINT_STATUS == "/status.json"
ENDPOINT_EMS == "/ems.json"
ENDPOINT_NODES == "/nodes.json"
ENDPOINT_MAINS == "/mains_data.json"
ENDPOINT_PARAMS == "/params.json"
ENDPOINT_SCHEDULE == "/schedule.json"
ENDPOINT_ERROR_REPORT == "/error_report.json"
ENDPOINT_OTA_MANIFEST == "/ota_manifest.json"
ENDPOINT_CONSOLE == "/console.json"

Endpoints ==
    {ENDPOINT_STATUS, ENDPOINT_EMS, ENDPOINT_NODES, ENDPOINT_MAINS, ENDPOINT_PARAMS,
     ENDPOINT_SCHEDULE, ENDPOINT_ERROR_REPORT, ENDPOINT_OTA_MANIFEST}

MAX_RETRIES == 3
RETRY_BASE_DELAY == 1     \* seconds (1.0)
RETRY_MAX_DELAY == 30     \* seconds (30.0)
RETRY_JITTER == 50        \* percent (0.5)
CACHE_EXPIRY == 600       \* seconds

\* Seconds to clock ticks: a tick is half a second.
Ticks(s) == s + s

(***************************************************************************)
(* Values: JSON objects are functions from field names; results of calls   *)
(* are either a returned value or a raised exception with its __cause__.   *)
(***************************************************************************)
EmptyObj == [k \in {} |-> 0]

\* dict.get(key, default)
DictGet(obj, key, default) == IF key \in DOMAIN obj THEN obj[key] ELSE default

\* An exception object; id is the attempt that produced it (its identity).
Exc(t, s, n) == [exc |-> t, status |-> s, id |-> n]
NoExc == Exc("None", 0, -1)

Return(v) == [kind |-> "return", value |-> v, error |-> "None", cause |-> NoExc]
Raise(e, c) == [kind |-> "raise", value |-> EmptyObj, error |-> e, cause |-> c]
NoResult == [kind |-> "none", value |-> EmptyObj, error |-> "None", cause |-> NoExc]

\* Subclasses of HomevoltApiError (the base class included).
HomevoltApiErrors ==
    {"HomevoltApiError", "HomevoltAuthError", "HomevoltRateLimitError",
     "HomevoltConnectionError", "HomevoltNotLocalModeError", "HomevoltCommandError"}

(***************************************************************************)
(* What the transport can produce for one session.get / session.post:      *)
(* a response (status, whether the body is JSON, the parsed body) or an    *)
(* exception raised by the library.                                        *)
(***************************************************************************)
Response(s, j, b) == [kind |-> "response", status |-> s, json |-> j, body |-> b]
LibError(k, s) == [kind |-> k, status |-> s, json |-> FALSE, body |-> EmptyObj]
NoOutcome == LibError("None", 0)

\* Statuses below 400 pass raise_for_status; 304 is a non-2xx one of them.
PassStatuses == {200, 304}
FailStatuses == {401, 404, 429, 500, 503}

GetOutcomes(bodies) ==
    {Response(s, TRUE, b) : s \in PassStatuses, b \in bodies}
    \cup {Response(s, FALSE, EmptyObj) : s \in PassStatuses \cup FailStatuses}
    \cup {LibError("ClientResponseError", s) : s \in {401, 404, 429, 500}}
    \cup {LibError("TimeoutError", 0), LibError("ClientError", 0)}

(***************************************************************************)
(* HomevoltApi._get_session / close                                        *)
(***************************************************************************)
\* The fields _session ("None", the session "supplied" to the constructor or
\* one of the client's "own") and _close_session, with their history: how
\* many sessions the client has created (its current own session is the
\* latest) and which sessions it has closed, in order, the supplied one
\* being number 0.
NewSession(supplied) ==
    [_session |-> IF supplied THEN "supplied" ELSE "None", _close_session |-> FALSE,
     created |-> 0, closed |-> <<>>]

_get_session(s) ==
    IF s._session = "None"
    THEN [s EXCEPT !._session = "own", !._close_session = TRUE, !.created = @ + 1]
    ELSE s

\* Variant: close() keeps the reference to the session it has closed.
closeKeepsSession(s) ==
    IF s._close_session /\ s._session # "None"
    THEN [s EXCEPT !.closed = Append(@, IF s._session = "own" THEN s.created ELSE 0)]
    ELSE s

close(s) ==
    IF s._close_session /\ s._session # "None"
    THEN [s EXCEPT !._session = "None",
                   !.closed = Append(@, IF s._session = "own" THEN s.created ELSE 0)]
    ELSE s

(***************************************************************************)
(* HomevoltApi._request: one iteration of the retry loop.                  *)
(***************************************************************************)
Min(a, b) == IF a <= b THEN a ELSE b

RECURSIVE Pow2(_)
Pow2(n) == IF n <= 0 THEN 1 ELSE 2 * Pow2(n - 1)

\* aiohttp ClientResponse.raise_for_status: raises for a status >= 400.
raise_for_status(status) == status >= 400

Returned(v) == [ok |-> TRUE, value |-> v, exc |-> NoExc]
Thrown(e) == [ok |-> FALSE, value |-> EmptyObj, exc |-> e]

\* The try body: what the GET of attempt n returns or throws.
RequestTry(o, n) ==
    IF o.kind = "response"
    THEN IF o.status = 401 THEN Thrown(Exc("HomevoltAuthError", 401, n))
         ELSE IF o.status = 429 THEN Thrown(Exc("HomevoltRateLimitError", 429, n))
         ELSE IF o.status >= 500 THEN Thrown(Exc("ClientResponseError", o.status, n))
         ELSE IF raise_for_status(o.status)
              THEN Thrown(Exc("ClientResponseError", o.status, n))
         ELSE IF o.json THEN Returned(o.body)
         \* response.json() on a body that is not JSON: ContentTypeError,
         \* a ClientResponseError carrying the status of the response
         ELSE Thrown(Exc("ClientResponseError", o.status, n))
    ELSE Thrown(Exc(o.kind, o.status, n))

\* The except clauses: either the call ends with a raise, or the failure is
\* remembered in last_error and the loop goes on.
Fatal(r) == [retry |-> FALSE, res |-> r, last_error |-> NoExc]
Retryable(e) == [retry |-> TRUE, res |-> NoResult, last_error |-> e]

\* Variant: auth and rate-limit failures fall in with the failures that are
\* remembered and retried.
RequestExceptAuthRetried(e) ==
    IF e.exc = "ClientResponseError" /\ e.status < 500 /\ e.status \notin {401, 429}
    THEN Fatal(Raise("HomevoltApiError", e))
    ELSE Retryable(e)

\* Variant: every ClientResponseError other than 401 and 429 is retried.
RequestExceptClientErrorRetried(e) ==
    IF e.exc \in {"HomevoltAuthError", "HomevoltRateLimitError"}
    THEN Fatal(Raise(e.exc, NoExc))
    ELSE IF e.exc = "ClientResponseError" /\ e.status = 401
    THEN Fatal(Raise("HomevoltAuthError", e))
    ELSE IF e.exc = "ClientResponseError" /\ e.status = 429
    THEN Fatal(Raise("HomevoltRateLimitError", e))
    ELSE Retryable(e)

RequestExcept(e) ==
    IF e.exc \in {"HomevoltAuthError", "HomevoltRateLimitError"}
    THEN Fatal(Raise(e.exc, NoExc))
    ELSE IF e.exc = "ClientResponseError"
    THEN IF e.status = 401 THEN Fatal(Raise("HomevoltAuthError", e))
         ELSE IF e.status = 429 THEN Fatal(Raise("HomevoltRateLimitError", e))
         ELSE IF e.status >= 500 THEN Retryable(e)
         ELSE Fatal(Raise("HomevoltApiError", e))
    ELSE Retryable(e)

\* Variant: a parsed body does not end the loop.
RequestAttemptNoReturn(o, n) ==
    LET t == RequestTry(o, n)
    IN  IF t.ok THEN Retryable(NoExc) ELSE RequestExcept(t.exc)

\* One attempt: the call returns, raises, or goes on to retry.
RequestAttempt(o, n) ==
    LET t == RequestTry(o, n)
    IN  IF t.ok THEN Fatal(Return(t.value)) ELSE RequestExcept(t.exc)

\* Variant: one attempt too many.
MoreAttemptsOffByOne(attempt, retries) == attempt <= retries

\* Whether a sleep and a further attempt follow a retryable failure of this
\* attempt: attempt < retries, i.e. the loop over range(retries + 1) goes on.
MoreAttempts(attempt, retries) == attempt < retries

\* "All retries exhausted"
RequestExhausted(last_error) == Raise("HomevoltConnectionError", last_error)

\* Variant: the delay doubles without a cap.
BackoffDelayUncapped(attempt, p) ==
    (Ticks(RETRY_BASE_DELAY * Pow2(attempt)) * (100 + p)) \div 100

\* Backoff before the next attempt, in ticks; p is the jitter drawn, in percent.
BackoffDelay(attempt, p) ==
    (Ticks(Min(RETRY_BASE_DELAY * Pow2(attempt), RETRY_MAX_DELAY)) * (100 + p)) \div 100

(***************************************************************************)
(* HomevoltApi._request_cached: what happens once _request has finished    *)
(* with result r at time t.  Yields the new cache and the result of the    *)
(* cached call.                                                            *)
(***************************************************************************)
NoEntry == [present |-> FALSE, data |-> EmptyObj, timestamp |-> 0]
CacheEntry(d, t) == [present |-> TRUE, data |-> d, timestamp |-> t]

\* Variant: an entry of age CACHE_EXPIRY is still served.
CacheValidInclusive(cached, t) ==
    cached.present /\ (t - cached.timestamp) <= Ticks(CACHE_EXPIRY)

\* "cached and (time.monotonic() - cached.timestamp) < CACHE_EXPIRY"
CacheValid(cached, t) == cached.present /\ (t - cached.timestamp) < Ticks(CACHE_EXPIRY)

\* Variant: every failure falls back to the cache.
RequestCachedFinishAuthFallback(c, endpoint, r, t) ==
    IF r.kind = "return"
    THEN [cache |-> [c EXCEPT ![endpoint] = CacheEntry(r.value, t)], res |-> r]
    ELSE IF r.error \in HomevoltApiErrors /\ CacheValid(c[endpoint], t)
    THEN [cache |-> c, res |-> Return(c[endpoint].data)]
    ELSE [cache |-> c, res |-> r]

\* Variant: a failure is never answered from the cache.
RequestCachedFinishNoFallback(c, endpoint, r, t) ==
    IF r.kind = "return"
    THEN [cache |-> [c EXCEPT ![endpoint] = CacheEntry(r.value, t)], res |-> r]
    ELSE [cache |-> c, res |-> r]

\* Variant: serving an entry counts as a use and renews its timestamp.
RequestCachedFinishRenews(c, endpoint, r, t) ==
    IF r.kind = "return"
    THEN [cache |-> [c EXCEPT ![endpoint] = CacheEntry(r.value, t)], res |-> r]
    ELSE IF r.error \in {"HomevoltAuthError", "HomevoltRateLimitError"}
    THEN [cache |-> c, res |-> r]
    ELSE IF r.error \in HomevoltApiErrors /\ CacheValid(c[endpoint], t)
    THEN [cache |-> [c EXCEPT ![endpoint] = CacheEntry(c[endpoint].data, t)],
          res |-> Return(c[endpoint].data)]
    ELSE [cache |-> c, res |-> r]

RequestCachedFinish(c, endpoint, r, t) ==
    IF r.kind = "return"
    THEN [cache |-> [c EXCEPT ![endpoint] = CacheEntry(r.value, t)], res |-> r]
    ELSE IF r.error \in {"HomevoltAuthError", "HomevoltRateLimitError"}
    THEN [cache |-> c, res |-> r]
    ELSE IF r.error \in HomevoltApiErrors /\ CacheValid(c[endpoint], t)
    THEN [cache |-> c, res |-> Return(c[endpoint].data)]
    ELSE [cache |-> c, res |-> r]

(***************************************************************************)
(* HomevoltApi.send_console_command: one POST of {cmd: command} to         *)
(* /console.json, never retried.  A command is the sequence of its words,  *)
(* which the code joins with single spaces.  The text of a reply is the    *)
(* sequence of its lines; a line is its content without the surrounding    *)
(* whitespace and whether it is indented.                                  *)
(***************************************************************************)
Line(indent, text) == [indent |-> indent, text |-> text]

\* The line contents the device sends in this model, by what matters of them.
PromptTexts == {"esp32> sched_set"}
ErrorCodeTexts == {"Command returned non-zero error code: 0x2 (ERROR)"}

\* Variant: no line is taken for the echo of the command.
StartsWithPromptNever(line) == FALSE

\* line.startswith("esp32>")
StartsWithPrompt(line) == ~line.indent /\ line.text \in PromptTexts

\* "returned non-zero error code" in line
HasErrorCode(line) == line.text \in ErrorCodeTexts

\* str.strip() of a text: no blank lines at either end, first line not indented.
RECURSIVE DropLeadingBlank(_)
DropLeadingBlank(lines) ==
    IF lines # <<>> /\ lines[1].text = "" THEN DropLeadingBlank(Tail(lines)) ELSE lines

RECURSIVE DropTrailingBlank(_)
DropTrailingBlank(lines) ==
    IF lines # <<>> /\ lines[Len(lines)].text = ""
    THEN DropTrailingBlank(SubSeq(lines, 1, Len(lines) - 1))
    ELSE lines

\* Variant: the text is taken as it came.
StripTextKeepsEnds(lines) == lines

StripText(lines) ==
    LET t == DropTrailingBlank(DropLeadingBlank(lines))
    IN  IF t = <<>> THEN t ELSE <<Line(FALSE, t[1].text)>> \o Tail(t)

\* The loop over the lines: the stripped lines before the first one with the
\* error code, the echoed prompt lines left out.
RECURSIVE ErrorLines(_)
ErrorLines(lines) ==
    IF lines = <<>> \/ HasErrorCode(lines[1]) THEN <<>>
    ELSE IF StartsWithPrompt(lines[1]) THEN ErrorLines(Tail(lines))
    ELSE <<lines[1].text>> \o ErrorLines(Tail(lines))

RECURSIVE TrimEmpty(_)
TrimEmpty(texts) ==
    IF texts # <<>> /\ texts[1] = "" THEN TrimEmpty(Tail(texts))
    ELSE IF texts # <<>> /\ texts[Len(texts)] = ""
    THEN TrimEmpty(SubSeq(texts, 1, Len(texts) - 1))
    ELSE texts

\* " ".join(error_lines).strip() or "Command failed"
ErrorMessage(lines) ==
    LET m == TrimEmpty(ErrorLines(StripText(lines)))
    IN  IF m = <<>> THEN <<"Command failed">> ELSE m

\* An exception with a message.
RaiseMsg(e, c, m) == [Raise(e, c) EXCEPT !.value = [message |-> m]]

ConsoleResponse(s, j, b, t) ==
    [kind |-> "response", status |-> s, json |-> j, body |-> b, text |-> t]

\* Variant: a JSON reply with a non-zero exit_code is a command error.
ConsoleTryChecksExitCode(command, o) ==
    IF o.kind = "response"
    THEN IF o.status = 401 THEN Thrown(Exc("HomevoltAuthError", 401, 0))
         ELSE IF o.status = 429 THEN Thrown(Exc("HomevoltRateLimitError", 429, 0))
         ELSE IF o.status = 400 THEN Thrown(Exc("HomevoltApiError", 400, 0))
         ELSE IF raise_for_status(o.status)
              THEN Thrown(Exc("ClientResponseError", o.status, 0))
         ELSE IF o.json
              THEN IF DictGet(o.body, "exit_code", 0) # 0
                   THEN Thrown(Exc("HomevoltCommandError", o.status, 0))
                   ELSE Returned(o.body)
         ELSE IF \E i \in DOMAIN o.text : HasErrorCode(o.text[i])
              THEN Thrown(Exc("HomevoltCommandError", o.status, 0))
         ELSE Returned([command |-> command, output |-> StripText(o.text), exit_code |-> 0])
    ELSE Thrown(Exc(o.kind, o.status, 0))

\* The try body of send_console_command.
ConsoleTry(command, o) ==
    IF o.kind = "response"
    THEN IF o.status = 401 THEN Thrown(Exc("HomevoltAuthError", 401, 0))
         ELSE IF o.status = 429 THEN Thrown(Exc("HomevoltRateLimitError", 429, 0))
         ELSE IF o.status = 400 THEN Thrown(Exc("HomevoltApiError", 400, 0))
         ELSE IF raise_for_status(o.status)
              THEN Thrown(Exc("ClientResponseError", o.status, 0))
         ELSE IF o.json THEN Returned(o.body)
         ELSE IF \E i \in DOMAIN o.text : HasErrorCode(o.text[i])
              THEN Thrown(Exc("HomevoltCommandError", o.status, 0))
         ELSE Returned([command |-> command, output |-> StripText(o.text), exit_code |-> 0])
    ELSE Thrown(Exc(o.kind, o.status, 0))

\* Variant: a timeout or a connection failure is reported as an API error.
ConsoleExceptNoConnectionError(command, o, e) ==
    IF e.exc = "HomevoltCommandError"
    THEN RaiseMsg(e.exc, NoExc, ErrorMessage(o.text))
    ELSE IF e.exc \in {"HomevoltAuthError", "HomevoltRateLimitError"}
    THEN Raise(e.exc, NoExc)
    ELSE IF e.status = 401 THEN Raise("HomevoltAuthError", e)
    ELSE IF e.status = 429 THEN Raise("HomevoltRateLimitError", e)
    ELSE IF e.status = 400
    THEN RaiseMsg("HomevoltApiError", NoExc, <<"Invalid command">> \o command)
    ELSE RaiseMsg("HomevoltApiError", e, <<"API error", ToString(e.status)>>)

\* send_console_command: what leaves the try statement when exception e was
\* raised in its body; the errors of the client itself match no except clause.
ConsoleExcept(command, o, e) ==
    IF e.exc = "HomevoltCommandError"
    THEN RaiseMsg(e.exc, NoExc, ErrorMessage(o.text))
    ELSE IF e.exc = "HomevoltApiError"
    THEN RaiseMsg(e.exc, NoExc, <<"Invalid command">> \o command)
    ELSE IF e.exc \in {"HomevoltAuthError", "HomevoltRateLimitError"}
    THEN Raise(e.exc, NoExc)
    ELSE IF e.exc = "ClientResponseError"
    THEN IF e.status = 401 THEN Raise("HomevoltAuthError", e)
         ELSE IF e.status = 429 THEN Raise("HomevoltRateLimitError", e)
         ELSE IF e.status = 400
              THEN RaiseMsg("HomevoltApiError", e, <<"Invalid command">> \o command)
         ELSE RaiseMsg("HomevoltApiError", e, <<"API error", ToString(e.status)>>)
    ELSE Raise("HomevoltConnectionError", e)

\* send_console_command(command) when its POST has completed with outcome o.
ConsoleResult(command, o) ==
    LET t == ConsoleTry(command, o)
    IN  IF t.ok THEN Return(t.value) ELSE ConsoleExcept(command, o, t.exc)

(***************************************************************************)
(* HomevoltApi.set_param: one POST of {k, v, store: "1"} to /params.json,  *)
(* never retried; it returns None.                                         *)
(***************************************************************************)
None == [None |-> TRUE]

\* Variant: a server error is reported like one of the read path that has
\* used up its retries.
ParamResultServerErrorAsConnection(o) ==
    IF o.kind = "response"
    THEN IF o.status = 401 THEN Raise("HomevoltAuthError", NoExc)
         ELSE IF o.status = 429 THEN Raise("HomevoltRateLimitError", NoExc)
         ELSE IF o.status >= 500
              THEN Raise("HomevoltConnectionError", Exc("ClientResponseError", o.status, 0))
         ELSE IF raise_for_status(o.status)
              THEN Raise("HomevoltApiError", Exc("ClientResponseError", o.status, 0))
         ELSE Return(None)
    ELSE IF o.kind = "ClientResponseError"
    THEN IF o.status = 401 THEN Raise("HomevoltAuthError", Exc(o.kind, o.status, 0))
         ELSE IF o.status = 429 THEN Raise("HomevoltRateLimitError", Exc(o.kind, o.status, 0))
         ELSE Raise("HomevoltApiError", Exc(o.kind, o.status, 0))
    ELSE Raise("HomevoltConnectionError", Exc(o.kind, o.status, 0))

\* set_param(key, value) when its POST has completed with outcome o: the try
\* body, then the except clauses for what it raised.
ParamResult(o) ==
    LET t == IF o.kind = "response"
             THEN IF o.status = 401 THEN Thrown(Exc("HomevoltAuthError", 401, 0))
                  ELSE IF o.status = 429 THEN Thrown(Exc("HomevoltRateLimitError", 429, 0))
                  ELSE IF raise_for_status(o.status)
                       THEN Thrown(Exc("ClientResponseError", o.status, 0))
                  ELSE Returned(None)
             ELSE Thrown(Exc(o.kind, o.status, 0))
        e == t.exc
    IN  IF t.ok THEN Return(None)
        ELSE IF e.exc \in {"HomevoltAuthError", "HomevoltRateLimitError"}
        THEN Raise(e.exc, NoExc)
        ELSE IF e.exc = "ClientResponseError"
        THEN IF e.status = 401 THEN Raise("HomevoltAuthError", e)
             ELSE IF e.status = 429 THEN Raise("HomevoltRateLimitError", e)
             ELSE Raise("HomevoltApiError", e)
        ELSE Raise("HomevoltConnectionError", e)

(***************************************************************************)
(* The mode setters set_idle .. set_full_solar_export and set_schedule.    *)
(***************************************************************************)
\* The literal after "sched_set" in each setter.
ModeNumber ==
    [set_idle |-> 0, set_charge |-> 1, set_discharge |-> 2, set_grid_charge |-> 3,
     set_grid_discharge |-> 4, set_grid_charge_discharge |-> 5, set_solar_charge |-> 7,
     set_solar_charge_discharge |-> 8, set_full_solar_export |-> 9]

ModeSetters == DOMAIN ModeNumber

\* The parameters of each setter; an argument left at None is absent from args.
ModeParams(setter) ==
    IF setter = "set_idle" THEN {"offline"}
    ELSE IF setter \in {"set_grid_charge_discharge", "set_solar_charge_discharge"}
    THEN {"setpoint", "charge_setpoint", "discharge_setpoint", "min_soc", "max_soc"}
    ELSE {"setpoint", "min_soc", "max_soc"}

\* Variant: an argument of 0 is taken for one that was not supplied.
FlagIfTruthy(args, key, flag) ==
    IF key \in DOMAIN args /\ args[key] # 0 THEN <<flag, ToString(args[key])>> ELSE <<>>

\* if arg is not None: cmd += f" {flag} {arg}"
Flag(args, key, flag) ==
    IF key \in DOMAIN args THEN <<flag, ToString(args[key])>> ELSE <<>>

ModeCommand(setter, args) ==
    IF setter = "set_idle"
    THEN <<"sched_set", "0">>
         \o (IF DictGet(args, "offline", FALSE) THEN <<"--offline">> ELSE <<>>)
    ELSE <<"sched_set", ToString(ModeNumber[setter])>>
         \o Flag(args, "setpoint", "-s")
         \o (IF "charge_setpoint" \in ModeParams(setter)
             THEN Flag(args, "charge_setpoint", "-c") \o Flag(args, "discharge_setpoint", "-d")
             ELSE <<>>)
         \o Flag(args, "min_soc", "--min")
         \o Flag(args, "max_soc", "--max")

\* Variant: a schedule without the flag counts as local mode.
LocalModeAbsentIsTrue(schedule) == DictGet(schedule, "local_mode", TRUE)

\* schedule.get("local_mode", False)
LocalMode(schedule) == DictGet(schedule, "local_mode", FALSE)

\* if "key" in entry: parts.append(f"{flag} {entry['key']}")
Part(entry, key, flag) ==
    IF key \in DOMAIN entry
    THEN <<flag, IF key \in {"from_time", "to_time"} THEN entry[key] ELSE ToString(entry[key])>>
    ELSE <<>>

_build_schedule_command(entry) ==
    <<ToString(entry.type)>>
    \o Part(entry, "from_time", "--from")
    \o Part(entry, "to_time", "--to")
    \o Part(entry, "min_soc", "--min")
    \o Part(entry, "max_soc", "--max")
    \o Part(entry, "setpoint", "-s")
    \o Part(entry, "max_charge", "-c")
    \o Part(entry, "max_discharge", "-d")
    \o Part(entry, "import_limit", "-l")
    \o Part(entry, "export_limit", "-x")

\* An entry as the caller builds it: its items (key, value) in the order of
\* their insertion.  The dict of the items maps each key to its value.
Dict(items) ==
    [key \in {items[i][1] : i \in DOMAIN items} |->
        LET i == CHOOSE j \in DOMAIN items : items[j][1] = key IN items[i][2]]

ScheduleFlag ==
    [from_time |-> "--from", to_time |-> "--to", min_soc |-> "--min", max_soc |-> "--max",
     setpoint |-> "-s", max_charge |-> "-c", max_discharge |-> "-d", import_limit |-> "-l",
     export_limit |-> "-x"]

\* The parts of the optional fields in the order of the items.
RECURSIVE PartsInOrder(_)
PartsInOrder(items) ==
    IF items = <<>> THEN <<>>
    ELSE (IF items[1][1] = "type" THEN <<>>
          ELSE Part(Dict(items), items[1][1], ScheduleFlag[items[1][1]]))
         \o PartsInOrder(Tail(items))

\* Variant: the parts follow the order in which the fields were inserted.
BuildInInsertionOrder(items) == <<ToString(Dict(items).type)>> \o PartsInOrder(items)

\* _build_schedule_command applied to the entry made of the items.
BuildFromItems(items) == _build_schedule_command(Dict(items))

\* Variant: an empty list is not refused.
EntriesNeverRefused(entries) == FALSE

\* set_schedule: if not entries: raise ValueError
EntriesRefused(entries) == entries = <<>>

\* Variant: every entry is sent with sched_set.
SchedulePrefixAlwaysSet(i) == "sched_set"

\* prefix = "sched_set" if i == 0 else "sched_add" (i counted from 1 here)
SchedulePrefix(i) == IF i = 1 THEN "sched_set" ELSE "sched_add"

\* The command set_schedule sends for its i-th entry.
ScheduleCommand(entries, i) == <<SchedulePrefix(i)>> \o _build_schedule_command(entries[i])

(***************************************************************************)
(* Frames.                                                                 *)
(***************************************************************************)
Idle == [name |-> "idle"]

NoReq == [endpoint |-> "None", retries |-> 0, attempt |-> 0, last_error |-> NoExc,
          cached |-> FALSE]
NewReq(endpoint, retries, cached) ==
    [endpoint |-> endpoint, retries |-> retries, attempt |-> 0, last_error |-> NoExc,
     cached |-> cached]

\* History events.
GetEvent(n) == [ev |-> "GET", n |-> n, delay |-> 0]
SleepEvent(n, d) == [ev |-> "SLEEP", n |-> n, delay |-> d]
\* a fetch: the result of _request (live), the result handed to the caller
\* (res, after the cache layer when the getter was used) and the time
FetchEvent(endpoint, live, r, t) ==
    [ev |-> "fetch", endpoint |-> endpoint, live |-> live, res |-> r, at |-> t]
\* a POST: where it went, the form it carried (cmd is the command of a
\* console POST), how the exchange ended and the result that the operation
\* which made it drew from that
PostEvent(cmd, o, r) ==
    [ev |-> "POST", endpoint |-> ENDPOINT_CONSOLE, data |-> [cmd |-> cmd], cmd |-> cmd,
     reply |-> o, res |-> r]

ParamPostEvent(key, value, o, r) ==
    [ev |-> "POST", endpoint |-> ENDPOINT_PARAMS,
     data |-> [k |-> key, v |-> value, store |-> "1"], cmd |-> <<>>, reply |-> o, res |-> r]

\* get_all_data: the fixed list of (key, getter); each getter is a
\* _request_cached of its endpoint with the default retry budget.
AllDataKeys == <<"status", "ems", "mains", "params", "schedule", "ota_manifest">>
AllDataEndpoints ==
    <<ENDPOINT_STATUS, ENDPOINT_EMS, ENDPOINT_MAINS, ENDPOINT_PARAMS, ENDPOINT_SCHEDULE,
      ENDPOINT_OTA_MANIFEST>>

\* Variant: no except clause around the getter.
AllDataCatchesNothing(r) == FALSE

\* Variant: a getter that cannot connect fails the whole fetch.
AllDataCatchesButConnection(r) ==
    r.kind = "raise" /\ r.error \in HomevoltApiErrors \ {"HomevoltConnectionError"}

\* get_all_data: "except HomevoltApiError" catches the failure of a getter.
AllDataCatches(r) == r.kind = "raise" /\ r.error \in HomevoltApiErrors

\* get_all_data: the value stored under a key for the result of its getter.
AllDataValue(r) == IF r.kind = "return" THEN r.value ELSE EmptyObj

(***************************************************************************)
(* Concurrent _request_cached calls: each task is one call, from its start *)
(* to the return of its result.                                            *)
(***************************************************************************)
TaskIds == 1 .. MaxTasks

IdleTask ==
    [state |-> "idle", endpoint |-> "None", attempt |-> 0, last_error |-> NoExc,
     wake |-> 0, live |-> NoResult, res |-> NoResult, at |-> 0, order |-> 0]

(***************************************************************************)
(* The host side: __init__.py and coordinator.py.  The strings that make   *)
(* up a device id (host names, ecu ids) are sequences of characters; a     *)
(* value that may be None is a record that says whether there is one.      *)
(***************************************************************************)
NoStr == [some |-> FALSE, str |-> <<>>]
Some(str) == [some |-> TRUE, str |-> str]

\* "if x:" for a str | None.
Truthy(x) == x.some /\ x.str # <<>>

\* [a-zA-Z0-9]
AlnumChars ==
    {"a", "b", "c", "d", "e", "f", "g", "h", "i", "j", "k", "l", "m", "n", "o", "p", "q", "r", "s", "t", "u", "v", "w", "x", "y", "z"}
    \cup {"A", "B", "C", "D", "E", "F", "G", "H", "I", "J", "K", "L", "M", "N", "O", "P", "Q", "R", "S", "T", "U", "V", "W", "X", "Y", "Z"}
    \cup {"0", "1", "2", "3", "4", "5", "6", "7", "8", "9"}

\* The length of the longest run of [a-zA-Z0-9] that starts at position k of h.
RECURSIVE AlnumRun(_, _)
AlnumRun(h, k) == IF k <= Len(h) /\ h[k] \in AlnumChars THEN 1 + AlnumRun(h, k + 1) ELSE 0

\* HOSTNAME_PATTERN matched at position k of h: "homevolt", an optional "_" or
\* "-", then one or more of [a-zA-Z0-9], which are the group.  When the run
\* after a separator is empty, the pattern without the separator fails too,
\* the separator not being in [a-zA-Z0-9].
PatternAt(h, k) ==
    LET word == <<"h", "o", "m", "e", "v", "o", "l", "t">>
        j == k + Len(word)
        g == IF j <= Len(h) /\ h[j] \in {"_", "-"} THEN j + 1 ELSE j
        n == AlnumRun(h, g)
    IN  IF k + Len(word) - 1 <= Len(h) /\ SubSeq(h, k, k + Len(word) - 1) = word /\ n > 0
        THEN Some(SubSeq(h, g, g + n - 1))
        ELSE NoStr

\* HOSTNAME_PATTERN.search(host) from position k on: the leftmost match.
RECURSIVE PatternSearch(_, _)
PatternSearch(h, k) ==
    IF k > Len(h) THEN NoStr
    ELSE IF PatternAt(h, k).some THEN PatternAt(h, k)
    ELSE PatternSearch(h, k + 1)

_extract_device_id_from_host(host) == PatternSearch(host, 1)

\* A JSON array at the top level of a response, as against an object.
JsonArray(items) == [array |-> items]
IsArray(v) == DOMAIN v = {"array"}

\* d.get("ecu_id") of an object
GetEcuId(d) == IF "ecu_id" \in DOMAIN d THEN Some(d["ecu_id"]) ELSE NoStr

_extract_ecu_id(ems_data) ==
    IF ~IsArray(ems_data)
    THEN LET ems_list == IF "ems" \in DOMAIN ems_data THEN ems_data["ems"] ELSE <<>>
         IN  IF ems_list # <<>> THEN GetEcuId(ems_list[1]) ELSE GetEcuId(ems_data)
    ELSE IF ems_data["array"] # <<>> THEN GetEcuId(ems_data["array"][1])
    ELSE NoStr

\* HomevoltCoordinator: data is None until a refresh has succeeded.
NoCoordinator ==
    [exists |-> FALSE, _host |-> <<>>, _initial_data |-> EmptyObj, has_data |-> FALSE,
     data |-> EmptyObj]
NewCoordinator(host, initial_data) ==
    [exists |-> TRUE, _host |-> host, _initial_data |-> initial_data, has_data |-> FALSE,
     data |-> EmptyObj]

\* "if self.data": there is data and the mapping is not empty.
HasData(c) == c.has_data /\ c.data # EmptyObj

\* d.get("ems", {})
GetEms(d) == IF "ems" \in DOMAIN d THEN d["ems"] ELSE EmptyObj

\* Variant: the initial data stay in use while the refreshed data name no ecu_id.
EmsDataSticky(c) ==
    IF HasData(c) /\ Truthy(_extract_ecu_id(GetEms(c.data))) THEN GetEms(c.data)
    ELSE GetEms(c._initial_data)

\* device_id: the ems object the id is looked for in.
EmsData(c) == IF HasData(c) THEN GetEms(c.data) ELSE GetEms(c._initial_data)

\* HomevoltCoordinator.device_id
device_id(c) ==
    LET ecu_id == _extract_ecu_id(EmsData(c))
        host_id == _extract_device_id_from_host(c._host)
    IN  IF Truthy(ecu_id) THEN ecu_id.str
        ELSE IF Truthy(host_id) THEN host_id.str
        ELSE <<"h", "o", "m", "e", "v", "o", "l", "t">>

PLATFORMS == {"binary_sensor", "button", "number", "select", "sensor", "switch"}
Services == {"clear_schedule"} \cup ModeSetters

\* Variant: a rate-limited probe is taken for bad credentials.
SetupExceptRateLimitAsAuth(r) ==
    IF r.error \in {"HomevoltAuthError", "HomevoltRateLimitError"}
    THEN Raise("ConfigEntryAuthFailed", r.cause)
    ELSE IF r.error = "HomevoltConnectionError"
    THEN Raise("ConfigEntryNotReady", r.cause)
    ELSE r

\* async_setup_entry: the except clauses around the probe and the first fetch.
SetupExcept(r) ==
    IF r.error = "HomevoltAuthError" THEN Raise("ConfigEntryAuthFailed", r.cause)
    ELSE IF r.error \in {"HomevoltRateLimitError", "HomevoltConnectionError"}
    THEN Raise("ConfigEntryNotReady", r.cause)
    ELSE r

\* _async_update_data: "except HomevoltApiError" becomes UpdateFailed.
UpdateExcept(r) ==
    IF r.error \in HomevoltApiErrors THEN Raise("UpdateFailed", r.cause) ELSE r

(***************************************************************************)
(* The host: nothing is set up when the client is constructed.             *)
(***************************************************************************)
NoHass ==
    [state |-> "not_loaded", coordinator |-> NoCoordinator, runtime_data |-> FALSE,
     platforms |-> {}, services |-> {}]

(***************************************************************************)
(* The state after construction: empty cache, a session supplied by the    *)
(* caller or none yet, nothing in progress.                                *)
(***************************************************************************)
InitWith(budget) ==
    /\ cache = [e \in Endpoints |-> NoEntry]
    /\ session \in {NewSession(FALSE), NewSession(TRUE)}
    /\ now = 0
    /\ op = Idle
    /\ req = NoReq
    /\ pend = "none"
    /\ ret = NoResult
    /\ trace = <<>>
    /\ rlog = <<>>
    /\ lastGet = NoOutcome
    /\ count = [calls |-> 0, ticks |-> 0, all |-> 0, closes |-> 0, budget |-> budget]
    /\ tasks = [i \in TaskIds |-> IdleTask]
    /\ hass = NoHass

\* At most MaxCalls operations are started in a behaviour.
Init == InitWith(MaxCalls)

\* Operations are issued one after the other: pend = "none" when none is running.
CanStart ==
    /\ pend = "none"
    /\ count.calls < count.budget
    /\ count' = [count EXCEPT !.calls = @ + 1]
    /\ trace' = <<>>
    /\ ret' = NoResult
    /\ UNCHANGED <<tasks, hass, cache, now>>

\* Entry of _request up to its first session.get.
EnterRequest(endpoint, retries, cached) ==
    /\ session' = _get_session(session)
    /\ req' = NewReq(endpoint, retries, cached)
    /\ pend' = "GET"
    /\ rlog' = <<>>
    /\ lastGet' = NoOutcome

\* A public operation ends with result r.
Finish(r) ==
    /\ ret' = r
    /\ pend' = "none"

(***************************************************************************)
(* Public operations: start of the call up to its first await.             *)
(***************************************************************************)
\* _request(endpoint, retries) called directly (test_connection does so).
Request(endpoint, retries) ==
    /\ pend = "none"
    /\ count.calls < count.budget
    /\ count' = [count EXCEPT !.calls = @ + 1]
    /\ trace' = <<>>
    /\ op' = [name |-> "_request", t0 |-> now]
    /\ IF retries + 1 > 0
       THEN /\ EnterRequest(endpoint, retries, FALSE)
            /\ ret' = NoResult
       ELSE \* range(retries + 1) is empty: straight to "All retries exhausted"
            /\ session' = _get_session(session)
            /\ req' = NewReq(endpoint, retries, FALSE)
            /\ rlog' = <<>>
            /\ lastGet' = NoOutcome
            /\ Finish(RequestExhausted(NoExc))
    /\ UNCHANGED <<tasks, hass, cache, now>>

\* Variant: the probe uses the default budget.
TestConnectionRetriesDefault == MAX_RETRIES

\* test_connection: retries=1
TestConnectionRetries == 1

\* test_connection(): _request(ENDPOINT_STATUS, retries=1).
TestConnection ==
    /\ CanStart
    /\ EnterRequest(ENDPOINT_STATUS, TestConnectionRetries, FALSE)
    /\ op' = [name |-> "test_connection", t0 |-> now]

\* _request_cached(endpoint): get_status, get_ems, ... with the default budget.
RequestCached(endpoint) ==
    /\ CanStart
    /\ EnterRequest(endpoint, MAX_RETRIES, TRUE)
    /\ op' = [name |-> "_request_cached", t0 |-> now]

\* get_all_data(): enters the getter of the first endpoint.
GetAllData ==
    /\ pend = "none"
    /\ count.calls < count.budget
    /\ count.all < MaxAllData
    /\ count' = [count EXCEPT !.calls = @ + 1, !.all = @ + 1]
    /\ trace' = <<>>
    /\ ret' = NoResult
    /\ EnterRequest(AllDataEndpoints[1], MAX_RETRIES, TRUE)
    /\ op' = [name |-> "get_all_data", t0 |-> now, i |-> 1, data |-> EmptyObj]
    /\ UNCHANGED <<tasks, hass, cache, now>>

\* async_setup_entry of a config entry for host: a client is constructed on
\* the session of the host application, and probed.
AsyncSetupEntry(host) ==
    /\ pend = "none"
    /\ count.calls < count.budget
    /\ hass.state = "not_loaded"
    /\ session = NewSession(TRUE)
    /\ \A e \in Endpoints : cache[e] = NoEntry
    /\ count' = [count EXCEPT !.calls = @ + 1]
    /\ trace' = <<>>
    /\ ret' = NoResult
    /\ EnterRequest(ENDPOINT_STATUS, TestConnectionRetries, FALSE)
    /\ op' = [name |-> "async_setup_entry", t0 |-> now, phase |-> "test_connection",
              host |-> host, i |-> 0, data |-> EmptyObj]
    /\ UNCHANGED <<tasks, hass, cache, now>>

\* HomevoltCoordinator._async_update_data: a refresh of the coordinator that
\* setup has stored, by the timer of the host application or on request.
AsyncUpdateData ==
    /\ pend = "none"
    /\ count.calls < count.budget
    /\ hass.state = "loaded"
    /\ count' = [count EXCEPT !.calls = @ + 1]
    /\ trace' = <<>>
    /\ ret' = NoResult
    /\ EnterRequest(AllDataEndpoints[1], MAX_RETRIES, TRUE)
    /\ op' = [name |-> "_async_update_data", t0 |-> now, phase |-> "refresh", i |-> 1,
              data |-> EmptyObj]
    /\ UNCHANGED <<tasks, hass, cache, now>>

\* A mode setter: enters get_schedule.
SetMode(setter, args) ==
    /\ CanStart
    /\ EnterRequest(ENDPOINT_SCHEDULE, MAX_RETRIES, TRUE)
    /\ op' = [name |-> "set_mode", t0 |-> now, setter |-> setter, args |-> args]

\* set_schedule(entries): an empty list is refused before anything is sent,
\* otherwise it enters get_schedule.
SetSchedule(entries) ==
    /\ pend = "none"
    /\ count.calls < count.budget
    /\ count' = [count EXCEPT !.calls = @ + 1]
    /\ trace' = <<>>
    /\ op' = [name |-> "set_schedule", t0 |-> now, entries |-> entries, i |-> 1,
              results |-> <<>>]
    /\ IF EntriesRefused(entries)
       THEN /\ Finish(Raise("ValueError", NoExc))
            /\ UNCHANGED <<session, req, rlog, lastGet>>
       ELSE /\ EnterRequest(ENDPOINT_SCHEDULE, MAX_RETRIES, TRUE)
            /\ ret' = NoResult
    /\ UNCHANGED <<tasks, hass, cache, now>>

\* Entry of send_console_command up to its session.post.
EnterConsole ==
    /\ session' = _get_session(session)
    /\ pend' = "POST"

\* send_console_command(command) called directly.
SendConsoleCommand(command) ==
    /\ CanStart
    /\ EnterConsole
    /\ op' = [name |-> "send_console_command", t0 |-> now, command |-> command]
    /\ UNCHANGED <<req, rlog, lastGet>>

\* Variant: the schedule is cleared by setting the idle mode.
ClearScheduleCommandIdle == <<"sched_set", "0">>

\* The fixed commands of clear_schedule and reboot.
ClearScheduleCommand == <<"sched_clear">>
RebootCommand == <<"reset_hard">>

\* clear_schedule()
ClearSchedule ==
    /\ CanStart
    /\ EnterConsole
    /\ op' = [name |-> "clear_schedule", t0 |-> now, command |-> ClearScheduleCommand]
    /\ UNCHANGED <<req, rlog, lastGet>>

\* reboot()
Reboot ==
    /\ CanStart
    /\ EnterConsole
    /\ op' = [name |-> "reboot", t0 |-> now, command |-> RebootCommand]
    /\ UNCHANGED <<req, rlog, lastGet>>

\* close(), between two operations.
Close ==
    /\ pend = "none"
    /\ count.closes < MaxCloses
    /\ count' = [count EXCEPT !.closes = @ + 1]
    /\ session' = close(session)
    /\ op' = [name |-> "close", t0 |-> now]
    /\ trace' = <<>>
    /\ ret' = Return(None)
    /\ UNCHANGED <<tasks, hass, cache, now, req, pend, rlog, lastGet>>

\* clear_cache(), between two operations: every entry is dropped.
ClearCache ==
    /\ pend = "none"
    /\ cache' = [e \in Endpoints |-> NoEntry]
    /\ op' = [name |-> "clear_cache", t0 |-> now]
    /\ UNCHANGED <<tasks, hass>>
    /\ trace' = <<>>
    /\ ret' = Return(None)
    /\ UNCHANGED <<session, now, req, pend, rlog, lastGet, count>>

\* _build_schedule_command(entry), a call without any await.
BuildScheduleCommand(items) ==
    /\ pend = "none"
    /\ count.calls < count.budget
    /\ count' = [count EXCEPT !.calls = @ + 1]
    /\ op' = [name |-> "_build_schedule_command", t0 |-> now, items |-> items]
    /\ trace' = <<>>
    /\ ret' = Return(BuildFromItems(items))
    /\ UNCHANGED <<tasks, hass, cache, session, now, req, pend, rlog, lastGet>>

\* set_param(key, value) up to its session.post.
SetParam(key, value) ==
    /\ CanStart
    /\ session' = _get_session(session)
    /\ pend' = "POST_PARAMS"
    /\ op' = [name |-> "set_param", t0 |-> now, key |-> key, value |-> value]
    /\ UNCHANGED <<req, rlog, lastGet>>

(***************************************************************************)
(* The code that runs when a fetch (a _request, through the cache layer    *)
(* when the getter was used) has ended with result r.                      *)
(***************************************************************************)
Resume(endpoint, live, r, t, last_error, log, o) ==
    LET tr == Append(trace, FetchEvent(endpoint, live, r, t))
        \* the fetch was the last step of the operation, which ends with res
        Last(res) ==
            /\ Finish(res)
            /\ req' = [req EXCEPT !.last_error = last_error]
            /\ rlog' = log
            /\ lastGet' = o
            /\ UNCHANGED session
    IN  /\ trace' = tr
        /\ CASE op.name \in {"_request", "_request_cached", "test_connection"} ->
                  /\ Last(r)
                  /\ UNCHANGED <<op, hass>>
             [] op.name = "get_all_data" ->
                  LET data == (op.data @@ (AllDataKeys[op.i] :> AllDataValue(r)))
                  IN  /\ UNCHANGED hass
                      /\ IF r.kind = "raise" /\ ~AllDataCatches(r)
                         THEN /\ Last(r)
                              /\ UNCHANGED op
                         ELSE IF op.i < Len(AllDataKeys)
                         THEN /\ op' = [op EXCEPT !.i = op.i + 1, !.data = data]
                              /\ EnterRequest(AllDataEndpoints[op.i + 1], MAX_RETRIES, TRUE)
                              /\ UNCHANGED ret
                         ELSE /\ Last(Return(data))
                              /\ op' = [op EXCEPT !.data = data]
             [] op.name = "async_setup_entry" /\ op.phase = "test_connection" ->
                  IF r.kind = "raise"
                  THEN /\ Last(SetupExcept(r))
                       /\ UNCHANGED <<op, hass>>
                  ELSE \* initial_data = await api.get_all_data()
                       /\ op' = [op EXCEPT !.phase = "initial_data", !.i = 1, !.data = EmptyObj]
                       /\ EnterRequest(AllDataEndpoints[1], MAX_RETRIES, TRUE)
                       /\ UNCHANGED <<ret, hass>>
             [] op.name = "async_setup_entry" /\ op.phase # "test_connection" ->
                  LET data == (op.data @@ (AllDataKeys[op.i] :> AllDataValue(r)))
                  IN  IF r.kind = "raise" /\ ~AllDataCatches(r)
                      THEN /\ Last(IF op.phase = "initial_data" THEN SetupExcept(r)
                                   ELSE UpdateExcept(r))
                           /\ UNCHANGED <<op, hass>>
                      ELSE IF op.i < Len(AllDataKeys)
                      THEN /\ op' = [op EXCEPT !.i = op.i + 1, !.data = data]
                           /\ EnterRequest(AllDataEndpoints[op.i + 1], MAX_RETRIES, TRUE)
                           /\ UNCHANGED <<ret, hass>>
                      ELSE IF op.phase = "initial_data"
                      THEN \* the coordinator is made, its first refresh begins
                           /\ hass' = [hass EXCEPT !.coordinator = NewCoordinator(op.host, data)]
                           /\ op' = [op EXCEPT !.phase = "first_refresh", !.i = 1,
                                                !.data = EmptyObj]
                           /\ EnterRequest(AllDataEndpoints[1], MAX_RETRIES, TRUE)
                           /\ UNCHANGED ret
                      ELSE \* the first refresh is done: the rest of the setup
                           /\ hass' = [hass EXCEPT !.state = "loaded",
                                                   !.coordinator.has_data = TRUE,
                                                   !.coordinator.data = data,
                                                   !.runtime_data = TRUE,
                                                   !.platforms = PLATFORMS,
                                                   !.services = @ \cup Services]
                           /\ op' = [op EXCEPT !.data = data]
                           /\ Last(Return(TRUE))
             [] op.name = "_async_update_data" ->
                  LET data == (op.data @@ (AllDataKeys[op.i] :> AllDataValue(r)))
                  IN  IF r.kind = "raise" /\ ~AllDataCatches(r)
                      THEN /\ Last(UpdateExcept(r))
                           /\ UNCHANGED <<op, hass>>
                      ELSE IF op.i < Len(AllDataKeys)
                      THEN /\ op' = [op EXCEPT !.i = op.i + 1, !.data = data]
                           /\ EnterRequest(AllDataEndpoints[op.i + 1], MAX_RETRIES, TRUE)
                           /\ UNCHANGED <<ret, hass>>
                      ELSE \* the coordinator takes the result as its data
                           /\ hass' = [hass EXCEPT !.coordinator.has_data = TRUE,
                                                   !.coordinator.data = data]
                           /\ op' = [op EXCEPT !.data = data]
                           /\ Last(Return(data))
             [] op.name \in {"set_mode", "set_schedule"} ->
                  \* schedule = await self.get_schedule(), then the gate
                  /\ UNCHANGED <<op, hass>>
                  /\ IF r.kind = "raise"
                     THEN Last(r)
                     ELSE IF ~LocalMode(r.value)
                     THEN Last(Raise("HomevoltNotLocalModeError", NoExc))
                     ELSE /\ EnterConsole
                          /\ req' = [req EXCEPT !.last_error = last_error]
                          /\ rlog' = log
                          /\ lastGet' = o
                          /\ UNCHANGED ret

(***************************************************************************)
(* session.get of the current attempt completes with outcome o.            *)
(***************************************************************************)
\* The exchange itself takes no time on the clock of the model: time passes
\* in the backoff sleeps and between operations.
HttpGet(o) ==
    /\ pend = "GET"
    /\ LET a == RequestAttempt(o, req.attempt)
           log == Append(rlog, GetEvent(req.attempt))
           t == now
       IN  /\ UNCHANGED now
           /\ UNCHANGED count
           /\ IF a.retry /\ MoreAttempts(req.attempt, req.retries)
              THEN /\ req' = [req EXCEPT !.last_error = a.last_error]
                   /\ pend' = "sleep"
                   /\ rlog' = log
                   /\ lastGet' = o
                   /\ UNCHANGED <<tasks, hass, cache, session, op, ret, trace>>
              ELSE LET r == IF a.retry THEN RequestExhausted(a.last_error) ELSE a.res
                       cf == IF req.cached
                             THEN RequestCachedFinish(cache, req.endpoint, r, t)
                             ELSE [cache |-> cache, res |-> r]
                   IN  /\ cache' = cf.cache
                       /\ UNCHANGED tasks
                       /\ Resume(req.endpoint, r, cf.res, t,
                                 IF a.retry THEN a.last_error ELSE req.last_error, log, o)

(***************************************************************************)
(* session.post of the current console command completes with outcome o.   *)
(***************************************************************************)
\* Variant: set_schedule goes on with the next entry after a failed command.
EndsOperationBestEffort(name, r) == name # "set_schedule"

\* The result r of a console command ends the operation: always in a setter,
\* clear_schedule and reboot, and in set_schedule when the command failed,
\* the exception leaving the loop over the entries.
EndsOperation(name, r) == name # "set_schedule" \/ r.kind = "raise"

\* The command being sent.
CurrentCommand ==
    IF op.name = "set_mode" THEN ModeCommand(op.setter, op.args)
    ELSE IF op.name = "set_schedule" THEN ScheduleCommand(op.entries, op.i)
    ELSE op.command

HttpPost(o) ==
    /\ pend = "POST"
    /\ LET cmd == CurrentCommand
           r == ConsoleResult(cmd, o)
       IN  /\ trace' = Append(trace, PostEvent(cmd, o, r))
           /\ IF EndsOperation(op.name, r)
              THEN /\ Finish(r)
                   /\ UNCHANGED <<op, session>>
              ELSE LET results == Append(op.results, r.value)
                   IN  IF op.i < Len(op.entries)
                       THEN /\ op' = [op EXCEPT !.i = op.i + 1, !.results = results]
                            /\ EnterConsole
                            /\ UNCHANGED ret
                       ELSE /\ op' = [op EXCEPT !.results = results]
                            /\ Finish(Return(results))
                            /\ UNCHANGED session
    /\ UNCHANGED <<tasks, hass, cache, now, req, rlog, lastGet, count>>

(***************************************************************************)
(* session.post of set_param completes with outcome o.                     *)
(***************************************************************************)
HttpPostParams(o) ==
    /\ pend = "POST_PARAMS"
    /\ LET r == ParamResult(o)
       IN  /\ trace' = Append(trace, ParamPostEvent(op.key, op.value, o, r))
           /\ Finish(r)
    /\ UNCHANGED <<tasks, hass, cache, session, now, op, req, rlog, lastGet, count>>

(***************************************************************************)
(* asyncio.sleep(delay) of the backoff completes; p is the jitter drawn.   *)
(***************************************************************************)
JitterPercents == {0, RETRY_JITTER}

BackoffSleep(p) ==
    /\ pend = "sleep"
    /\ LET d == BackoffDelay(req.attempt, p)
       IN  /\ now' = now + d
           /\ rlog' = Append(rlog, SleepEvent(req.attempt, d))
    /\ req' = [req EXCEPT !.attempt = req.attempt + 1]
    /\ pend' = "GET"
    /\ UNCHANGED <<tasks, hass, cache, session, op, ret, trace, lastGet, count>>

(***************************************************************************)
(* Time passes after an operation, while none is in progress.              *)
(***************************************************************************)
Tick(d) ==
    /\ pend = "none"
    /\ ret.kind # "none"
    /\ count.calls < count.budget
    /\ count.ticks < MaxTicks
    /\ count' = [count EXCEPT !.ticks = @ + 1]
    /\ now' = now + d
    /\ UNCHANGED <<tasks, hass, cache, session, op, req, pend, ret, trace, rlog, lastGet>>

(***************************************************************************)
(* _request_cached calls that run concurrently on one client.  A call      *)
(* gives way to the others where it awaits: in session.get, in the backoff *)
(* sleep, and on leaving the response context before _request returns.     *)
(***************************************************************************)
Max(a, b) == IF a >= b THEN a ELSE b

\* _request_cached(endpoint) is called: up to the first session.get.
TaskStart(i, endpoint) ==
    /\ tasks[i].state = "idle"
    /\ tasks' = [tasks EXCEPT ![i] = [IdleTask EXCEPT !.state = "GET", !.endpoint = endpoint]]
    /\ session' = _get_session(session)
    /\ UNCHANGED <<cache, now, op, req, pend, ret, trace, rlog, lastGet, count, hass>>

\* session.get of task i completes with outcome o; p is the jitter of the
\* sleep that follows a retryable failure.
TaskGet(i, o, p) ==
    /\ tasks[i].state = "GET"
    /\ LET task == tasks[i]
           a == RequestAttempt(o, task.attempt)
       IN  IF a.retry /\ MoreAttempts(task.attempt, MAX_RETRIES)
           THEN tasks' = [tasks EXCEPT ![i] =
                             [task EXCEPT !.state = "sleep", !.last_error = a.last_error,
                                          !.wake = now + BackoffDelay(task.attempt, p)]]
           ELSE tasks' = [tasks EXCEPT ![i] =
                             [task EXCEPT !.state = "got",
                                          !.live = IF a.retry THEN RequestExhausted(a.last_error)
                                                   ELSE a.res]]
    /\ UNCHANGED <<cache, session, now, op, req, pend, ret, trace, rlog, lastGet, count, hass>>

\* The sleep of task i is over, at its wake time or later.
TaskWake(i) ==
    /\ tasks[i].state = "sleep"
    /\ now' = Max(now, tasks[i].wake)
    /\ tasks' = [tasks EXCEPT ![i] = [@ EXCEPT !.state = "GET", !.attempt = @ + 1, !.wake = 0]]
    /\ UNCHANGED <<cache, session, op, req, pend, ret, trace, rlog, lastGet, count, hass>>

\* Variant: an entry that is there is not replaced.
TaskFinishedFirstWins(c, task, t, n) ==
    LET cf == RequestCachedFinish(c, task.endpoint, task.live, t)
    IN  [cache |-> IF c[task.endpoint].present THEN c ELSE cf.cache,
         task |-> [task EXCEPT !.state = "done", !.res = cf.res, !.at = t, !.order = n]]

\* _request has handed its outcome to _request_cached, which stores the data
\* or looks for a fallback and returns; the call is the n-th to complete.
TaskFinished(c, task, t, n) ==
    LET cf == RequestCachedFinish(c, task.endpoint, task.live, t)
    IN  [cache |-> cf.cache,
         task |-> [task EXCEPT !.state = "done", !.res = cf.res, !.at = t, !.order = n]]

TaskFinish(i) ==
    /\ tasks[i].state = "got"
    /\ LET n == Cardinality({j \in TaskIds : tasks[j].state = "done"}) + 1
           f == TaskFinished(cache, tasks[i], now, n)
       IN  /\ cache' = f.cache
           /\ tasks' = [tasks EXCEPT ![i] = f.task]
    /\ UNCHANGED <<session, now, op, req, pend, ret, trace, rlog, lastGet, count, hass>>

(***************************************************************************)
(* Specification of the retry engine alone: _request called directly.      *)
(***************************************************************************)
Bodies == {[v |-> 1], [v |-> 2]}

RetryArgs == (0 - 1) .. MaxRetriesArg

NextRequest ==
    \/ \E r \in RetryArgs : Request(ENDPOINT_STATUS, r)
    \/ \E o \in GetOutcomes(Bodies) : HttpGet(o)
    \/ \E p \in JitterPercents : BackoffSleep(p)

SpecRequest == Init /\ [][NextRequest]_vars

(***************************************************************************)
(* Specification of the cache layer: the getter of an endpoint, called     *)
(* again and again with idle periods in between.  The idle periods are     *)
(* chosen around CACHE_EXPIRY so that a failure is handled just before, at *)
(* and after the expiry of an entry.                                       *)
(***************************************************************************)
CacheEndpoints == {ENDPOINT_STATUS}

CacheOutcomes ==
    {Response(200, TRUE, b) : b \in Bodies}
    \cup {Response(s, FALSE, EmptyObj) : s \in {401, 404, 429}}
    \cup {LibError("ClientError", 0)}

ClockSteps == {Ticks(CACHE_EXPIRY - 8), Ticks(CACHE_EXPIRY)}

NextCache ==
    \/ \E e \in CacheEndpoints : RequestCached(e)
    \/ \E o \in CacheOutcomes : HttpGet(o)
    \/ \E p \in JitterPercents : BackoffSleep(p)
    \/ \E d \in ClockSteps : Tick(d)

SpecCache == Init /\ [][NextCache]_vars

(***************************************************************************)
(* Specification of the aggregate fetch: get_all_data, after an optional   *)
(* get_ems that fills the cache, with the cache entry expiring or not in   *)
(* between.  The device answers a GET with a body that names the endpoint  *)
(* and the operation, or with a status that fails the fetch at once.       *)
(***************************************************************************)
DeviceBody(endpoint, n) == [endpoint |-> endpoint, gen |-> n]

AllOutcomes ==
    {Response(200, TRUE, DeviceBody(req.endpoint, count.calls))}
    \cup {Response(s, FALSE, EmptyObj) : s \in {401, 404}}

NextAll ==
    \/ GetAllData
    \/ RequestCached(ENDPOINT_EMS)
    \/ \E o \in AllOutcomes : HttpGet(o)
    \/ Tick(Ticks(CACHE_EXPIRY))

SpecAll == Init /\ [][NextAll]_vars

(***************************************************************************)
(* Specification of the schedule commands: the mode setters and            *)
(* set_schedule against a device that is in local mode, is not, or does    *)
(* not say, and that answers a console command with a JSON reply, a plain  *)
(* text, an error text or a failure.                                       *)
(***************************************************************************)
ArgValues ==
    [setpoint |-> 3000, charge_setpoint |-> 4000, discharge_setpoint |-> 5000,
     min_soc |-> 0, max_soc |-> 90, offline |-> TRUE]

Restrict(f, keys) == [k \in keys |-> f[k]]

\* Each setter without arguments and with all of them.
ModeArgs(setter) == {EmptyObj, Restrict(ArgValues, ModeParams(setter))}

ScheduleEntries ==
    {[type |-> 5, setpoint |-> 3000, max_charge |-> 4000, max_discharge |-> 5000],
     [type |-> 3, from_time |-> "2024-01-01T00:00:00", to_time |-> "2024-01-01T06:00:00",
      min_soc |-> 0, max_soc |-> 90, import_limit |-> 6000, export_limit |-> 7000]}

RECURSIVE SeqsUpTo(_, _)
SeqsUpTo(S, n) ==
    IF n = 0 THEN {<<>>}
    ELSE LET shorter == SeqsUpTo(S, n - 1)
         IN  shorter \cup {Append(q, x) : q \in shorter, x \in S}

ScheduleBodies == {[local_mode |-> TRUE], [local_mode |-> FALSE], [schedule |-> <<>>]}

\* A 401 fails get_schedule whatever the cache holds; a 404 fails the live
\* fetch at once and lets the cache layer answer from an unexpired entry.
ModeGetOutcomes ==
    {Response(200, TRUE, b) : b \in ScheduleBodies}
    \cup {Response(s, FALSE, EmptyObj) : s \in {401, 404}}

OkText == <<Line(FALSE, "esp32> sched_set"), Line(FALSE, "Schedule set"), Line(FALSE, "")>>
ErrorText ==
    <<Line(FALSE, "esp32> sched_set"), Line(TRUE, "Invalid argument"),
      Line(FALSE, "Command returned non-zero error code: 0x2 (ERROR)")>>

JsonReply == [output |-> <<Line(FALSE, "OK")>>, exit_code |-> 0]

PostOutcomes ==
    {ConsoleResponse(200, TRUE, JsonReply, <<>>)}
    \cup {ConsoleResponse(200, FALSE, EmptyObj, t) : t \in {OkText, ErrorText}}
    \cup {ConsoleResponse(s, FALSE, EmptyObj, <<>>) : s \in {400, 401}}
    \cup {LibError("TimeoutError", 0)}

NextMode ==
    \/ \E setter \in ModeSetters : \E args \in ModeArgs(setter) : SetMode(setter, args)
    \/ \E entries \in SeqsUpTo(ScheduleEntries, MaxEntries) : SetSchedule(entries)
    \/ \E o \in ModeGetOutcomes : HttpGet(o)
    \/ \E o \in PostOutcomes : HttpPost(o)
    \/ Tick(Ticks(CACHE_EXPIRY))

SpecMode == Init /\ [][NextMode]_vars

(***************************************************************************)
(* Specification of the commands of the mode setters: every setter with    *)
(* every choice of supplied arguments, against a device in local mode that *)
(* accepts every command.                                                  *)
(***************************************************************************)
ModeArgsAll(setter) ==
    IF setter = "set_idle"
    THEN {EmptyObj, [offline |-> TRUE], [offline |-> FALSE]}
    ELSE {Restrict(ArgValues, given) : given \in SUBSET ModeParams(setter)}

NextCommand ==
    \/ \E setter \in ModeSetters : \E args \in ModeArgsAll(setter) : SetMode(setter, args)
    \/ HttpGet(Response(200, TRUE, [local_mode |-> TRUE]))
    \/ HttpPost(ConsoleResponse(200, TRUE, JsonReply, <<>>))

SpecCommand == Init /\ [][NextCommand]_vars

(***************************************************************************)
(* Specification of the console channel: send_console_command with some    *)
(* command, clear_schedule and reboot, between calls of get_schedule that  *)
(* fill the cache, against a device that answers a console POST in every   *)
(* way the code distinguishes.                                             *)
(***************************************************************************)
ConsoleCommands == {<<"sched_list">>, <<"bogus", "--now">>}

PromptLine == Line(FALSE, "esp32> sched_set")
ErrorCodeLine == Line(FALSE, "Command returned non-zero error code: 0x2 (ERROR)")

\* Replies in plain text: without the error code; with it after an indented
\* message; with nothing but the prompt before it; with lines before and
\* after it, an empty one and the prompt among them; with an indented prompt;
\* starting with white space.
ConsoleTexts ==
    {OkText,
     ErrorText,
     <<PromptLine, ErrorCodeLine>>,
     <<Line(FALSE, "Bad mode"), Line(FALSE, ""), PromptLine, Line(TRUE, "Usage"),
       ErrorCodeLine, Line(FALSE, "Schedule set"), ErrorCodeLine>>,
     <<PromptLine, Line(TRUE, "esp32> sched_set"), Line(TRUE, "Usage"), ErrorCodeLine>>,
     <<Line(FALSE, ""), Line(TRUE, "esp32> sched_set"), Line(FALSE, ""), ErrorCodeLine,
       Line(FALSE, "")>>,
     <<Line(FALSE, ""), Line(TRUE, "Schedule set"), Line(TRUE, "Usage"), Line(FALSE, "")>>}

\* Replies in JSON: a success, and a failure whose output quotes the error code.
ConsoleJsonBodies ==
    {JsonReply,
     [command |-> <<"bogus">>, output |-> <<ErrorCodeLine>>, exit_code |-> 1]}

ConsoleOutcomes ==
    {ConsoleResponse(s, TRUE, b, <<>>) : s \in {200, 201}, b \in ConsoleJsonBodies}
    \cup {ConsoleResponse(200, FALSE, EmptyObj, t) : t \in ConsoleTexts}
    \cup {ConsoleResponse(304, FALSE, EmptyObj, OkText)}
    \cup {ConsoleResponse(s, FALSE, EmptyObj, <<>>) : s \in {400, 401, 404, 429, 500, 503}}
    \cup {LibError("ClientResponseError", s) : s \in {400, 401, 429, 502}}
    \cup {LibError("TimeoutError", 0), LibError("ClientError", 0)}

NextConsole ==
    \/ \E command \in ConsoleCommands : SendConsoleCommand(command)
    \/ ClearSchedule
    \/ Reboot
    \/ RequestCached(ENDPOINT_SCHEDULE)
    \/ \E b \in {[local_mode |-> FALSE], [local_mode |-> TRUE]} :
           HttpGet(Response(200, TRUE, b))
    \/ \E o \in ConsoleOutcomes : HttpPost(o)

SpecConsole == Init /\ [][NextConsole]_vars

(***************************************************************************)
(* Specification of the parameter write: set_param between calls of        *)
(* get_params that fill the cache.                                         *)
(***************************************************************************)
ParamKeys == {"ems_mode", "settings_local"}
ParamValues == {"0", "1"}

ParamOutcomes ==
    {Response(s, FALSE, EmptyObj) : s \in {200, 204, 304, 400, 401, 404, 429, 500, 503}}
    \cup {LibError("ClientResponseError", s) : s \in {401, 429, 502}}
    \cup {LibError("TimeoutError", 0), LibError("ClientError", 0)}

NextParam ==
    \/ \E key \in ParamKeys, value \in ParamValues : SetParam(key, value)
    \/ RequestCached(ENDPOINT_PARAMS)
    \/ \E b \in Bodies : HttpGet(Response(200, TRUE, b))
    \/ \E o \in ParamOutcomes : HttpPostParams(o)

SpecParam == Init /\ [][NextParam]_vars

(***************************************************************************)
(* Specification of the session: requests of the three kinds (a GET        *)
(* without retries as test_connection makes it, a console command, a       *)
(* parameter write) and close() calls in any order, on a client that was   *)
(* given a session or not.                                                 *)
(***************************************************************************)
NextSession ==
    \/ Request(ENDPOINT_STATUS, 1)
    \/ ClearSchedule
    \/ SetParam("ems_mode", "1")
    \/ Close
    \/ \E o \in {Response(200, TRUE, [v |-> 1]), Response(401, FALSE, EmptyObj),
                  LibError("ClientError", 0)} : HttpGet(o)
    \/ BackoffSleep(0)
    \/ \E o \in {ConsoleResponse(200, TRUE, JsonReply, <<>>), LibError("TimeoutError", 0)} :
           HttpPost(o)
    \/ \E o \in {Response(200, FALSE, EmptyObj), Response(500, FALSE, EmptyObj)} :
           HttpPostParams(o)

SpecSession == Init /\ [][NextSession]_vars

(***************************************************************************)
(* Specification of the connectivity probe: test_connection against a      *)
(* device that answers each GET in any of the ways of the retry engine.    *)
(***************************************************************************)
NextProbe ==
    \/ TestConnection
    \/ \E o \in GetOutcomes(Bodies) : HttpGet(o)
    \/ \E p \in JitterPercents : BackoffSleep(p)

SpecProbe == Init /\ [][NextProbe]_vars

(***************************************************************************)
(* Specification of the backoff: one _request on a fresh client, with a    *)
(* retry budget large enough for the delay to reach RETRY_MAX_DELAY, each  *)
(* attempt failing retryably, failing for good or succeeding, and each     *)
(* sleep drawing the least or the greatest jitter.                         *)
(***************************************************************************)
BackoffOutcomes ==
    {LibError("TimeoutError", 0), Response(503, FALSE, EmptyObj),
     Response(404, FALSE, EmptyObj), Response(200, TRUE, [v |-> 1])}

NextBackoff ==
    \/ count.calls = 0 /\ Request(ENDPOINT_STATUS, MaxBackoffRetries)
    \/ \E o \in BackoffOutcomes : HttpGet(o)
    \/ \E p \in JitterPercents : BackoffSleep(p)

SpecBackoff == Init /\ [][NextBackoff]_vars

(***************************************************************************)
(* Specification of _build_schedule_command: one call on an entry with a   *)
(* type, put in first or last, and optional fields inserted in any order.  *)
(***************************************************************************)
FieldValue ==
    [from_time |-> "2024-01-01T00:00:00", to_time |-> "2024-01-01T06:00:00",
     min_soc |-> 0, max_soc |-> 90, setpoint |-> 3000, max_charge |-> 4000,
     max_discharge |-> 5000, import_limit |-> 6000, export_limit |-> 7000]

OptionalFields == DOMAIN FieldValue

\* The sequences of at most n different optional fields, as items.
RECURSIVE FieldItems(_)
FieldItems(n) ==
    IF n = 0 THEN {<<>>}
    ELSE LET shorter == FieldItems(n - 1)
         IN  shorter \cup
             {Append(q, <<f, FieldValue[f]>>) :
                  q \in shorter, f \in OptionalFields}

Distinct(items) == \A i, j \in DOMAIN items : items[i][1] = items[j][1] => i = j

AllFieldItems ==
    <<<<"export_limit", 7000>>, <<"import_limit", 6000>>, <<"max_discharge", 5000>>,
      <<"max_charge", 4000>>, <<"setpoint", 3000>>, <<"max_soc", 90>>, <<"min_soc", 0>>,
      <<"to_time", "2024-01-01T06:00:00">>, <<"from_time", "2024-01-01T00:00:00">>>>

EntryItems ==
    LET fields == {q \in FieldItems(MaxFields) : Distinct(q)} \cup {AllFieldItems}
    IN  {<<<<"type", 3>>>> \o q : q \in fields} \cup {q \o <<<<"type", 3>>>> : q \in fields}

NextBuild == \E items \in EntryItems : count.calls = 0 /\ BuildScheduleCommand(items)

SpecBuild == Init /\ [][NextBuild]_vars

(***************************************************************************)
(* Specification of the life of a cache entry: getters of two endpoints,   *)
(* a direct _request and clear_cache, with the clock passing just below    *)
(* and up to the expiry.  A GET is answered with a body that names the     *)
(* endpoint and the operation, or with a status that fails it at once.     *)
(***************************************************************************)
InitLong == InitWith(MaxLongCalls)

EntryEndpoints == {ENDPOINT_STATUS, ENDPOINT_EMS}

EntryOutcomes ==
    {Response(200, TRUE, DeviceBody(req.endpoint, count.calls))}
    \cup {Response(s, FALSE, EmptyObj) : s \in {401, 404}}

EntryClockSteps == {1, Ticks(CACHE_EXPIRY) - 1}

NextEntry ==
    \/ \E e \in EntryEndpoints : RequestCached(e)
    \/ Request(ENDPOINT_STATUS, 0)
    \/ ClearCache
    \/ \E o \in EntryOutcomes : HttpGet(o)
    \/ \E d \in EntryClockSteps : Tick(d)

SpecEntry == InitLong /\ [][NextEntry]_vars

(***************************************************************************)
(* Specification of the local-mode gate over a failing device: set_idle    *)
(* and set_schedule of one entry, the schedule GET answered with a         *)
(* schedule, a failure that ends the request at once or a failure that is  *)
(* retried, the console POST always accepted.  Between two operations the  *)
(* clock moves so that the retries of the second end just below or at the  *)
(* expiry of what the first has cached.                                    *)
(***************************************************************************)
GateOutcomes ==
    {Response(200, TRUE, b) : b \in ScheduleBodies}
    \cup {Response(s, FALSE, EmptyObj) : s \in {401, 404, 503}}
    \cup {LibError("TimeoutError", 0)}

\* The backoff sleeps of a request that uses up its retries, without jitter.
RetrySleepTotal == BackoffDelay(0, 0) + BackoffDelay(1, 0) + BackoffDelay(2, 0)

GateClockSteps == {Ticks(CACHE_EXPIRY) - RetrySleepTotal - 1, 1}

NextGate ==
    \/ SetMode("set_idle", EmptyObj)
    \/ SetSchedule(<<[type |-> 1]>>)
    \/ \E o \in GateOutcomes : HttpGet(o)
    \/ BackoffSleep(0)
    \/ HttpPost(ConsoleResponse(200, TRUE, JsonReply, <<>>))
    \/ \E d \in GateClockSteps : Tick(d)

SpecGate == Init /\ [][NextGate]_vars

(***************************************************************************)
(* Specification of concurrent getters: MaxTasks calls of _request_cached  *)
(* for two endpoints, started and resumed in every order.  A GET is        *)
(* answered with a body that names the call or with a failure that ends    *)
(* the request at once; the first attempt of a call may also time out.     *)
(***************************************************************************)
TaskBody(i) == [task |-> i]

TaskOutcomes(i) ==
    {Response(200, TRUE, TaskBody(i)), Response(404, FALSE, EmptyObj)}
    \cup (IF tasks[i].attempt = 0 THEN {LibError("TimeoutError", 0)} ELSE {})

NextTasks ==
    \/ \E i \in TaskIds : \E e \in EntryEndpoints : TaskStart(i, e)
    \/ \E i \in TaskIds : \E o \in TaskOutcomes(i) : TaskGet(i, o, 0)
    \/ \E i \in TaskIds : TaskWake(i)
    \/ \E i \in TaskIds : TaskFinish(i)

SpecTasks == Init /\ [][NextTasks]_vars

(***************************************************************************)
(* Specification of the host side: the setup of a config entry and the     *)
(* refreshes of its coordinator.  The probe is answered in every way that  *)
(* setup tells apart.  In a fetch of all data the device is down, every    *)
(* GET failing to connect on every attempt, or up, and then /ems.json      *)
(* alone varies: one of the shapes that device_id reads, or not found.     *)
(***************************************************************************)
InitHost == Init /\ session = NewSession(TRUE)

HostNamed == <<"h", "o", "m", "e", "v", "o", "l", "t", "-", "a", "b", "c", "1", "2", "3", ".", "l", "o", "c", "a", "l">>
HostBare == <<"h", "o", "m", "e", "v", "o", "l", "t", ".", "l", "a", "n">>
HostAddress == <<"1", "9", "2", ".", "1", "6", "8", ".", "1", ".", "5", "0">>
Hosts == {HostNamed, HostBare, HostAddress}

EcuNested == <<"E", "1">>
EcuFlat == <<"E", "2">>
EcuTop == <<"E", "3">>

EmsBodies ==
    {[ems |-> <<[ecu_id |-> EcuNested], [ecu_id |-> EcuFlat]>>],
     [ecu_id |-> EcuFlat],
     [ems |-> <<[node |-> 1]>>, ecu_id |-> EcuFlat],
     JsonArray(<<[ecu_id |-> EcuTop]>>)}

Down == LibError("ClientError", 0)

\* The device was down at the first fetch of the current fetch of all data.
PassDown == op.i > 1 /\ trace[Len(trace) - op.i + 2].live.kind = "raise"

HostOutcomes ==
    IF pend # "GET" THEN {}
    ELSE IF req.attempt > 0 THEN {lastGet}
    ELSE IF op.phase = "test_connection"
    THEN {Response(200, TRUE, DeviceBody(req.endpoint, 0)), Down}
         \cup {Response(st, FALSE, EmptyObj) : st \in {401, 404, 429}}
    ELSE IF op.i = 1 THEN {Response(200, TRUE, DeviceBody(req.endpoint, 0)), Down}
    ELSE IF PassDown THEN {Down}
    ELSE IF req.endpoint = ENDPOINT_EMS
    THEN {Response(200, TRUE, b) : b \in EmsBodies} \cup {Response(404, FALSE, EmptyObj)}
    ELSE {Response(200, TRUE, DeviceBody(req.endpoint, 0))}

NextHost ==
    \/ \E host \in Hosts : AsyncSetupEntry(host)
    \/ AsyncUpdateData
    \/ \E o \in HostOutcomes : HttpGet(o)
    \/ BackoffSleep(0)
    \/ Tick(Ticks(CACHE_EXPIRY))

SpecHost == InitHost /\ [][NextHost]_vars

(***************************************************************************)
(* Specification of the fetch of all data against a device that fails to   *)
(* connect: get_all_data on its own and as the refresh of the coordinator  *)
(* of an entry that was set up while the device answered.  Each endpoint   *)
(* answers or fails to connect on every attempt, independently of the      *)
(* others; the cache entries expire between two operations or not.         *)
(***************************************************************************)
RefreshOutcomes ==
    IF pend # "GET" THEN {}
    ELSE IF req.attempt > 0 THEN {lastGet}
    ELSE {Response(200, TRUE, DeviceBody(req.endpoint, count.calls))}
         \cup (IF op.name = "async_setup_entry" THEN {} ELSE {Down})

NextRefresh ==
    \/ GetAllData
    \/ AsyncSetupEntry(HostNamed)
    \/ AsyncUpdateData
    \/ \E o \in RefreshOutcomes : HttpGet(o)
    \/ BackoffSleep(0)
    \/ Tick(Ticks(CACHE_EXPIRY))

SpecRefresh == InitHost /\ [][NextRefresh]_vars

(***************************************************************************)
(* Properties.                                                             *)
(***************************************************************************)
Range(q) == {q[i] : i \in DOMAIN q}

NumEv(log, kind) == Cardinality({i \in DOMAIN log : log[i].ev = kind})

\* No operation is running and the last one has produced its outcome.
Finished == pend = "none" /\ ret.kind # "none"

\* GET 0, SLEEP 0, GET 1, SLEEP 1, ...: attempts one after the other, one
\* sleep between two consecutive attempts.
Sequential(log) ==
    \A i \in DOMAIN log :
        IF i % 2 = 1
        THEN log[i].ev = "GET" /\ log[i].n = (i - 1) \div 2
        ELSE log[i].ev = "SLEEP" /\ log[i].n = (i \div 2) - 1

EndsWithGet(log) == log # <<>> /\ log[Len(log)].ev = "GET"

\* The attempt saw HTTP status s, on the response or on the library's error.
Observes(o, s) == o.kind \in {"response", "ClientResponseError"} /\ o.status = s

\* Server error, timeout or connection failure.
IsRetryableFailure(o) ==
    \/ o.kind \in {"response", "ClientResponseError"} /\ o.status >= 500
    \/ o.kind \in {"TimeoutError", "ClientError"}

\* A 2xx response with a JSON body.
IsSuccess(o) == o.kind = "response" /\ o.status \in 200..299 /\ o.json

\* The latest attempt was attempt k of a _request that has ended there:
\* k + 1 GETs, k sleeps, nothing after the last GET.
EndedAtAttempt(k) ==
    /\ Finished
    /\ NumEv(rlog, "GET") = k + 1
    /\ NumEv(rlog, "SLEEP") = k
    /\ Sequential(rlog)
    /\ EndsWithGet(rlog)

\* C1: in _request, an attempt that observes 401 or 429 (the first attempt or
\* a later one) ends the call at once with HomevoltAuthError (401) or
\* HomevoltRateLimitError (429): no further GET and no sleep follow, whatever
\* budget remains.
C1_AuthRateLimitFailAtOnce ==
    \A s \in {401, 429} :
        (op.name = "_request" /\ Observes(lastGet, s)) =>
            /\ EndedAtAttempt(req.attempt)
            /\ ret.kind = "raise"
            /\ ret.error = (IF s = 401 THEN "HomevoltAuthError" ELSE "HomevoltRateLimitError")

C1_Witness ==
    /\ op.name = "_request"
    /\ Finished
    /\ Observes(lastGet, 429)
    /\ req.attempt >= 1
    /\ req.attempt < req.retries

\* C5: for a budget retries >= 0, when every attempt of _request fails with a
\* server error, a timeout or a connection failure, exactly retries + 1 GETs
\* are issued one after the other and the call fails with
\* HomevoltConnectionError whose cause is the failure of the last attempt.
C5_ExhaustedBudget ==
    (op.name = "_request" /\ req.retries >= 0) =>
        /\ NumEv(rlog, "GET") <= req.retries + 1
        /\ (pend = "none" /\ IsRetryableFailure(lastGet)) =>
              /\ EndedAtAttempt(req.retries)
              /\ ret.kind = "raise"
              /\ ret.error = "HomevoltConnectionError"
              /\ ret.cause.id = req.retries
              /\ ret.cause.exc = (IF lastGet.kind = "response"
                                  THEN "ClientResponseError" ELSE lastGet.kind)
              /\ ret.cause.status = lastGet.status

C5_Witness ==
    /\ op.name = "_request"
    /\ Finished
    /\ req.retries = MAX_RETRIES
    /\ lastGet.kind = "TimeoutError"
    /\ ret.error = "HomevoltConnectionError"
    /\ NumEv(rlog, "GET") = MAX_RETRIES + 1

\* C6: when attempts 0..k-1 of _request fail retryably and attempt k <= retries
\* succeeds, _request returns the JSON body of attempt k after exactly k + 1
\* GETs, and no GET or sleep follows the successful attempt.
C6_SuccessAfterRetries ==
    (op.name = "_request" /\ IsSuccess(lastGet)) =>
        /\ EndedAtAttempt(req.attempt)
        /\ req.attempt <= req.retries
        /\ ret = Return(lastGet.body)

C6_Witness ==
    /\ op.name = "_request"
    /\ Finished
    /\ IsSuccess(lastGet)
    /\ req.attempt >= 2
    /\ ret.kind = "return"
    /\ ret.value = [v |-> 2]

\* C7 as stated: a response whose status is non-2xx and none of 401, 429 or
\* >= 500 ends _request at once with the generic HomevoltApiError.
C7_AnyOtherNon2xxIsApiError ==
    (/\ op.name = "_request"
     /\ lastGet.kind = "response"
     /\ lastGet.status \notin 200..299
     /\ lastGet.status \notin {401, 429}
     /\ lastGet.status < 500) =>
        /\ EndedAtAttempt(req.attempt)
        /\ ret.kind = "raise"
        /\ ret.error = "HomevoltApiError"

\* C7 (amended): a response whose status is in 400..499 and neither 401 nor
\* 429 ends _request at once with the generic HomevoltApiError (not an auth,
\* rate-limit or connection error): one more GET than the preceding retryable
\* failures, the remaining budget unused.
C7_ClientErrorIsApiError ==
    (/\ op.name = "_request"
     /\ lastGet.kind = "response"
     /\ lastGet.status \in 400..499
     /\ lastGet.status \notin {401, 429}) =>
        /\ EndedAtAttempt(req.attempt)
        /\ ret.kind = "raise"
        /\ ret.error = "HomevoltApiError"

C7_Witness ==
    /\ op.name = "_request"
    /\ Finished
    /\ lastGet.kind = "response"
    /\ lastGet.status = 404
    /\ req.attempt >= 1
    /\ req.attempt < req.retries
    /\ ret.error = "HomevoltApiError"

\* C2: in _request_cached a 401 or 429 failure propagates to the caller even
\* when the cache holds a non-expired entry for the endpoint: the cached data
\* is not returned in place of the error and the cache is left unchanged.
C2_AuthRateLimitBypassCache ==
    [][\A s \in {401, 429} :
         (/\ op.name = "_request_cached"
          /\ pend = "GET"
          /\ Len(rlog') = Len(rlog) + 1
          /\ Observes(lastGet', s)) =>
            /\ pend' = "none"
            /\ ret'.kind = "raise"
            /\ ret'.error = (IF s = 401 THEN "HomevoltAuthError" ELSE "HomevoltRateLimitError")
            /\ cache' = cache]_vars

C2_Witness ==
    /\ op.name = "_request_cached"
    /\ Finished
    /\ Observes(lastGet, 401)
    /\ ret.error = "HomevoltAuthError"
    /\ cache[req.endpoint].present
    /\ trace[1].at - cache[req.endpoint].timestamp < Ticks(CACHE_EXPIRY)

\* Sum of the backoff sleeps of a _request.
RECURSIVE SleepTotal(_)
SleepTotal(log) ==
    IF log = <<>> THEN 0 ELSE log[Len(log)].delay + SleepTotal(SubSeq(log, 1, Len(log) - 1))

\* C8: cache round trip.  A successful _request_cached(E) stores its data D
\* with the time t of its completion; a later _request_cached(E) whose live
\* request fails with a non-auth, non-rate-limit error returns exactly D when
\* the failure is handled at a time with now - t < 600 s and propagates the
\* live error when now - t >= 600 s; the age is taken when the failure is
\* handled, after the retries and sleeps of that call.
C8_CacheRoundTrip ==
    (op.name = "_request_cached" /\ Finished) =>
        LET f == trace[1]
            e == cache[f.endpoint]
        IN  /\ f.at >= op.t0 + SleepTotal(rlog)
            /\ f.live.kind = "return" =>
                  /\ e = CacheEntry(f.live.value, f.at)
                  /\ ret = Return(f.live.value)
            /\ (/\ f.live.kind = "raise"
                /\ f.live.error \notin {"HomevoltAuthError", "HomevoltRateLimitError"}
                /\ e.present) =>
                  IF f.at - e.timestamp < Ticks(CACHE_EXPIRY)
                  THEN ret = Return(e.data)
                  ELSE ret = f.live

\* A failing call that began while the entry was still young enough and
\* handled its failure at an age of exactly CACHE_EXPIRY.
C8_Witness ==
    /\ op.name = "_request_cached"
    /\ Finished
    /\ cache[req.endpoint].present
    /\ op.t0 - cache[req.endpoint].timestamp < Ticks(CACHE_EXPIRY)
    /\ trace[1].at - cache[req.endpoint].timestamp = Ticks(CACHE_EXPIRY)
    /\ ret.kind = "raise"
    /\ ret.error = "HomevoltConnectionError"

\* C3 as stated: when one of the six endpoints answers 401 or 429 during
\* get_all_data, the matching specialized error reaches the caller instead of
\* an empty object or cached data.
C3_AuthRateLimitNeverSwallowed ==
    (op.name = "get_all_data" /\ Finished) =>
        \A i \in DOMAIN trace :
            trace[i].live.error \in {"HomevoltAuthError", "HomevoltRateLimitError"} =>
                /\ ret.kind = "raise"
                /\ ret.error = trace[i].live.error

\* C9: get_all_data fetches status, ems, mains, params, schedule and
\* ota_manifest, each exactly once per call whatever the outcome of the
\* others, and returns a mapping with exactly those six keys: the value of a
\* fetch that succeeded, an empty object for one that failed without a valid
\* cache entry, the values of the other endpoints being unaffected.
C9_AllSixEndpoints ==
    (op.name = "get_all_data" /\ Finished) =>
        /\ Len(trace) = 6
        /\ ret.kind = "return"
        /\ DOMAIN ret.value = {"status", "ems", "mains", "params", "schedule", "ota_manifest"}
        /\ \A i \in DOMAIN trace :
              LET f == trace[i]
                  key == AllDataKeys[i]
              IN  /\ f.endpoint = AllDataEndpoints[i]
                  /\ f.live.kind = "return" => ret.value[key] = f.live.value
                  /\ f.res.kind = "return" => ret.value[key] = f.res.value
                  /\ f.res.kind = "raise" => ret.value[key] = EmptyObj

\* One endpoint failed without a cache entry, one was served from the cache,
\* the others answered.
C9_Witness ==
    /\ op.name = "get_all_data"
    /\ Finished
    /\ trace[1].res.kind = "raise"
    /\ ret.value["status"] = EmptyObj
    /\ trace[2].live.kind = "raise"
    /\ ret.value["ems"] = DeviceBody(ENDPOINT_EMS, 1)
    /\ ret.value["mains"] = DeviceBody(ENDPOINT_MAINS, 2)
    /\ ret.value["ota_manifest"] = DeviceBody(ENDPOINT_OTA_MANIFEST, 2)

\* The result of get_schedule in the running or finished operation: the
\* first event of its trace.
GateFetched ==
    /\ trace # <<>>
    /\ trace[1].ev = "fetch"
    /\ trace[1].endpoint = ENDPOINT_SCHEDULE
    /\ trace[1].at >= op.t0

GateTrue ==
    /\ GateFetched
    /\ trace[1].res.kind = "return"
    /\ "local_mode" \in DOMAIN trace[1].res.value
    /\ trace[1].res.value["local_mode"] = TRUE

Posts == {i \in DOMAIN trace : trace[i].ev = "POST"}

\* C4: in a call of any of the nine mode setters a console POST is issued
\* only after get_schedule of the same call has returned a mapping whose
\* local_mode is true; when local_mode is false or absent the call raises
\* HomevoltNotLocalModeError, when get_schedule raises, that error reaches
\* the caller, and in both cases no console POST is made.
C4_LocalModeGate ==
    op.name = "set_mode" =>
        /\ op.setter \in {"set_idle", "set_charge", "set_discharge", "set_grid_charge",
                          "set_grid_discharge", "set_grid_charge_discharge",
                          "set_solar_charge", "set_solar_charge_discharge",
                          "set_full_solar_export"}
        /\ (pend = "POST" \/ Posts # {}) => GateTrue
        /\ (Finished /\ ~GateTrue) =>
              /\ GateFetched
              /\ Posts = {}
              /\ IF trace[1].res.kind = "raise"
                 THEN ret = trace[1].res
                 ELSE ret.kind = "raise" /\ ret.error = "HomevoltNotLocalModeError"

\* A setter refused because the schedule of the device does not say whether
\* it is in local mode.
C4_Witness ==
    /\ op.name = "set_mode"
    /\ Finished
    /\ GateFetched
    /\ trace[1].res.kind = "return"
    /\ "local_mode" \notin DOMAIN trace[1].res.value
    /\ ret.error = "HomevoltNotLocalModeError"
    /\ Len(trace) = 1

\* C10: set_schedule with n >= 1 entries, on a device in local mode whose
\* commands all succeed, checks the local mode once, before any command, and
\* then issues exactly n console POSTs in list order; the command of the first
\* entry starts with sched_set, that of every later entry with sched_add, and
\* the list returned holds the n replies in the same order.
C10_ScheduleCommandsInOrder ==
    (/\ op.name = "set_schedule"
     /\ Finished
     /\ Len(op.entries) >= 1
     /\ GateTrue
     /\ \A i \in Posts : trace[i].res.kind = "return") =>
        LET n == Len(op.entries)
        IN  /\ NumEv(trace, "fetch") = 1
            /\ Len(trace) = n + 1
            /\ \A i \in 1 .. n :
                  /\ trace[i + 1].ev = "POST"
                  /\ Head(trace[i + 1].cmd) = (IF i = 1 THEN "sched_set" ELSE "sched_add")
                  /\ Tail(trace[i + 1].cmd) = _build_schedule_command(op.entries[i])
            /\ ret.kind = "return"
            /\ ret.value = [i \in 1 .. n |-> trace[i + 1].res.value]

\* Two different entries, answered by two different replies.
C10_Witness ==
    /\ op.name = "set_schedule"
    /\ Finished
    /\ Len(op.entries) = 2
    /\ op.entries[1] # op.entries[2]
    /\ ret.kind = "return"
    /\ Len(ret.value) = 2
    /\ ret.value[1] # ret.value[2]

\* C11: set_schedule([]) fails with ValueError before any network call: the
\* call is over when it starts, with no schedule GET and no console POST
\* issued, and the cache (and the session) as they were.
C11_EmptyScheduleRefused ==
    [][(/\ count'.calls # count.calls
        /\ op'.name = "set_schedule"
        /\ op'.entries = <<>>) =>
           /\ ret' = Raise("ValueError", NoExc)
           /\ pend' = "none"
           /\ trace' = <<>>
           /\ cache' = cache
           /\ session' = session
           /\ rlog' = rlog]_vars

\* An empty list given to a client whose cache holds a schedule.
C11_Witness ==
    /\ op.name = "set_schedule"
    /\ op.entries = <<>>
    /\ Finished
    /\ ret.error = "ValueError"
    /\ cache[ENDPOINT_SCHEDULE].present

\* The flags of the mode commands in the order of the command line, with the
\* argument each one carries.
FlagOrder == <<"-s", "-c", "-d", "--min", "--max">>
FlagArgument ==
    [i \in 1 .. 5 |->
        <<"setpoint", "charge_setpoint", "discharge_setpoint", "min_soc", "max_soc">>[i]]

\* The positions in FlagOrder of the flags whose argument was supplied.
RECURSIVE SuppliedFrom(_, _)
SuppliedFrom(args, i) ==
    IF i > Len(FlagOrder) THEN <<>>
    ELSE (IF FlagArgument[i] \in DOMAIN args THEN <<i>> ELSE <<>>) \o SuppliedFrom(args, i + 1)

\* The command a setter has sent: the POST that follows its schedule fetch.
SentCommand == trace[2].cmd

ModeCommandSent == op.name = "set_mode" /\ Len(trace) >= 2 /\ trace[2].ev = "POST"

\* C12: each mode setter sends sched_set and its fixed mode number (idle 0,
\* charge 1, discharge 2, grid_charge 3, grid_discharge 4,
\* grid_charge_discharge 5, solar_charge 7, solar_charge_discharge 8,
\* full_solar_export 9), followed by exactly the flags whose argument was
\* supplied, in the order -s, -c, -d, --min, --max (-c and -d for modes 5 and
\* 8 only), each with its argument; set_idle appends only --offline, when
\* offline is true.
C12_ModeCommandFormat ==
    ModeCommandSent =>
        LET cmd == SentCommand
            number == [set_idle |-> "0", set_charge |-> "1", set_discharge |-> "2",
                       set_grid_charge |-> "3", set_grid_discharge |-> "4",
                       set_grid_charge_discharge |-> "5", set_solar_charge |-> "7",
                       set_solar_charge_discharge |-> "8", set_full_solar_export |-> "9"]
            supplied == SuppliedFrom(op.args, 1)
        IN  /\ Len(cmd) >= 2
            /\ cmd[1] = "sched_set"
            /\ cmd[2] = number[op.setter]
            /\ IF op.setter = "set_idle"
               THEN cmd = <<"sched_set", "0">>
                          \o (IF "offline" \in DOMAIN op.args /\ op.args["offline"]
                              THEN <<"--offline">> ELSE <<>>)
               ELSE /\ Len(cmd) = 2 + 2 * Len(supplied)
                    /\ \A k \in DOMAIN supplied :
                          /\ cmd[2 * k + 1] = FlagOrder[supplied[k]]
                          /\ cmd[2 * k + 2] = ToString(op.args[FlagArgument[supplied[k]]])
            /\ ("-c" \in Range(cmd) \/ "-d" \in Range(cmd)) => cmd[2] \in {"5", "8"}

\* A bidirectional setter called with some of its arguments, one of them 0.
C12_Witness ==
    /\ ModeCommandSent
    /\ Finished
    /\ op.setter = "set_solar_charge_discharge"
    /\ DOMAIN op.args = {"setpoint", "discharge_setpoint", "min_soc"}
    /\ op.args["min_soc"] = 0
    /\ SentCommand = <<"sched_set", "8", "-s", "3000", "-d", "5000", "--min", "0">>

\* C13 as stated: every sched_set 5 command that set_grid_charge_discharge
\* sends carries -s with the setpoint.
C13_GridChargeDischargeCarriesSetpoint ==
    (ModeCommandSent /\ op.setter = "set_grid_charge_discharge") =>
        /\ Len(SentCommand) >= 4
        /\ SentCommand[3] = "-s"

\* The step in which the POST of a direct send_console_command completes.
ConsolePostCompletes ==
    /\ pend = "POST"
    /\ op.name = "send_console_command"
    /\ trace' # trace

\* What a completed send_console_command has done, the statuses in others
\* being those that give a generic HomevoltApiError.
ConsoleCallClassified(others) ==
    LET e == trace'[1]
        o == e.reply
        hasStatus == o.kind \in {"response", "ClientResponseError"}
    IN  /\ trace = <<>>
        /\ Len(trace') = 1
        /\ e.ev = "POST"
        /\ e.endpoint = "/console.json"
        /\ e.data = [cmd |-> op.command]
        /\ pend' = "none"
        /\ ret' = e.res
        /\ ret'.kind \in {"return", "raise"}
        /\ cache' = cache
        /\ (hasStatus /\ o.status = 400) =>
              /\ ret'.kind = "raise"
              /\ ret'.error = "HomevoltApiError"
              /\ ret'.value = [message |-> <<"Invalid command">> \o op.command]
        /\ (hasStatus /\ o.status = 401) =>
              ret'.kind = "raise" /\ ret'.error = "HomevoltAuthError"
        /\ (hasStatus /\ o.status = 429) =>
              ret'.kind = "raise" /\ ret'.error = "HomevoltRateLimitError"
        /\ (hasStatus /\ o.status \in others) =>
              ret'.kind = "raise" /\ ret'.error = "HomevoltApiError"
        /\ o.kind \in {"TimeoutError", "ClientError"} =>
              ret'.kind = "raise" /\ ret'.error = "HomevoltConnectionError"

\* C14 as stated: send_console_command issues exactly one POST to
\* /console.json with the form {cmd: command} per call and never retries it;
\* 400 raises a generic HomevoltApiError naming the command, 401
\* HomevoltAuthError, 429 HomevoltRateLimitError, any other non-2xx reply a
\* generic HomevoltApiError, a timeout or connection failure
\* HomevoltConnectionError; the cache is not touched.
C14_ConsoleOtherNon2xxIsApiError ==
    [][ConsolePostCompletes =>
           ConsoleCallClassified((100 .. 599) \ ((200 .. 299) \cup {400, 401, 429}))]_vars

\* C14, amended: as above, the other replies that raise a generic
\* HomevoltApiError being those with a status of 400 or more; a reply with a
\* non-2xx status below 400 is handled like a 2xx reply.
C14_ConsoleOnePostClassified ==
    [][ConsolePostCompletes =>
           /\ ConsoleCallClassified((400 .. 599) \ {400, 401, 429})
           /\ (trace'[1].reply.kind = "response" /\ trace'[1].reply.status < 400) =>
                 ret' = ConsoleResult(op.command,
                                      [trace'[1].reply EXCEPT !.status = 200])]_vars

\* A command answered by 404 on a client whose cache holds a schedule.
C14_Witness ==
    /\ op.name = "send_console_command"
    /\ Finished
    /\ Len(trace) = 1
    /\ trace[1].reply.kind = "response"
    /\ trace[1].reply.status = 404
    /\ ret.error = "HomevoltApiError"
    /\ cache[ENDPOINT_SCHEDULE].present

\* A finished call whose only event is a console POST answered in plain text
\* with a 2xx status.
PlainTextReply ==
    /\ op.name \in {"send_console_command", "clear_schedule", "reboot"}
    /\ Finished
    /\ Len(trace) = 1
    /\ trace[1].reply.kind = "response"
    /\ trace[1].reply.status \in 200 .. 299
    /\ ~trace[1].reply.json

\* The lines with the error code in a text.
ErrorCodeAt(text) ==
    {i \in DOMAIN text : text[i].text = "Command returned non-zero error code: 0x2 (ERROR)"}

\* A text without the white space around it: from its first to its last line
\* that is not blank, the first one without its indentation.
Trimmed(text) ==
    LET filled == {i \in DOMAIN text : text[i].text # ""}
    IN  IF filled = {} THEN <<>>
        ELSE LET lo == CHOOSE i \in filled : \A j \in filled : i <= j
                 hi == CHOOSE i \in filled : \A j \in filled : i >= j
             IN  [k \in 1 .. (hi - lo + 1) |->
                     IF k = 1 THEN [indent |-> FALSE, text |-> text[lo].text]
                     ELSE text[lo + k - 1]]

\* C15: for a 2xx console reply whose body is not JSON,
\* send_console_command raises HomevoltCommandError if and only if the body
\* contains "returned non-zero error code"; otherwise it returns the result
\* made of the command sent, the body without the white space around it as
\* output, and exit_code 0.
C15_PlainTextReply ==
    PlainTextReply =>
        LET text == trace[1].reply.text
        IN  /\ (ret.kind = "raise" /\ ret.error = "HomevoltCommandError")
                  <=> ErrorCodeAt(text) # {}
            /\ ErrorCodeAt(text) = {} =>
                  ret = Return([command |-> op.command, output |-> Trimmed(text),
                                exit_code |-> 0])

\* A text that begins and ends with white space, returned without it.
C15_Witness ==
    /\ PlainTextReply
    /\ trace[1].reply.text[1].text = ""
    /\ trace[1].reply.text[2].indent
    /\ ret.kind = "return"
    /\ ret.value.command = <<"bogus", "--now">>
    /\ ret.value.output = <<Line(FALSE, "Schedule set"), Line(TRUE, "Usage")>>

\* C16: when a plain-text console reply has a line with "returned non-zero
\* error code", the message of the HomevoltCommandError is made of the lines
\* before the first such line only: those that begin with the prompt esp32>
\* are dropped, the others are trimmed and joined with single spaces, and the
\* message is "Command failed" when nothing remains.  (A message is written
\* as the sequence of the trimmed lines joined; the white space around the
\* joined text is removed, and with it the empty lines at its ends.)
C16_CommandErrorMessage ==
    (PlainTextReply /\ ErrorCodeAt(trace[1].reply.text) # {}) =>
        LET text == trace[1].reply.text
            codes == ErrorCodeAt(text)
            first == CHOOSE i \in codes : \A j \in codes : i <= j
            \* the text starts at its first line that is not blank
            BeginsWithPrompt(i) ==
                /\ text[i].text = "esp32> sched_set"
                /\ ~text[i].indent \/ \A j \in 1 .. (i - 1) : text[j].text = ""
            Kept(i) == ~BeginsWithPrompt(i)
            kept == SelectSeq([i \in 1 .. (first - 1) |-> i], Kept)
            joined == [k \in DOMAIN kept |-> text[kept[k]].text]
            filled == {k \in DOMAIN joined : joined[k] # ""}
            message ==
                IF filled = {} THEN <<"Command failed">>
                ELSE SubSeq(joined,
                            CHOOSE k \in filled : \A j \in filled : k <= j,
                            CHOOSE k \in filled : \A j \in filled : k >= j)
        IN  /\ ret.kind = "raise"
            /\ ret.error = "HomevoltCommandError"
            /\ ret.value = [message |-> message]

\* A reply with a prompt line and two message lines before the first error
\* code line, and lines after it.
C16_Witness ==
    /\ PlainTextReply
    /\ Len(trace[1].reply.text) = 7
    /\ ErrorCodeAt(trace[1].reply.text) = {5, 7}
    /\ ret.error = "HomevoltCommandError"
    /\ ret.value.message[1] = "Bad mode"
    /\ ret.value.message[Len(ret.value.message)] = "Usage"

\* C17: for a 2xx console reply whose body parses as JSON,
\* send_console_command returns the parsed value as it is and raises nothing,
\* whatever its exit_code and whatever its output says.
C17_JsonReplyVerbatim ==
    (/\ op.name \in {"send_console_command", "clear_schedule", "reboot"}
     /\ Finished
     /\ trace[1].reply.kind = "response"
     /\ trace[1].reply.status \in 200 .. 299
     /\ trace[1].reply.json) =>
        /\ ret.kind = "return"
        /\ ret.value = trace[1].reply.body

\* A JSON reply with exit_code 1 whose output quotes the error code.
C17_Witness ==
    /\ op.name = "send_console_command"
    /\ Finished
    /\ trace[1].reply.kind = "response"
    /\ trace[1].reply.json
    /\ ret.kind = "return"
    /\ ret.value.exit_code = 1
    /\ ErrorCodeAt(ret.value.output) # {}

\* C20: clear_schedule and reboot each issue exactly one console POST, with
\* the fixed command sched_clear and reset_hard respectively, and no
\* schedule GET before it: nothing but that POST is ever in flight, whatever
\* the device says about its local mode.
C20_FixedCommandsUngated ==
    op.name \in {"clear_schedule", "reboot"} =>
        LET command == IF op.name = "clear_schedule" THEN <<"sched_clear">>
                       ELSE <<"reset_hard">>
        IN  \/ pend = "POST" /\ trace = <<>>
            \/ /\ Finished
               /\ Len(trace) = 1
               /\ trace[1].ev = "POST"
               /\ trace[1].endpoint = "/console.json"
               /\ trace[1].data = [cmd |-> command]
               /\ ret = trace[1].res

\* The schedule cleared on a device that had last said it is not in local mode.
C20_Witness ==
    /\ op.name = "clear_schedule"
    /\ Finished
    /\ ret.kind = "return"
    /\ cache[ENDPOINT_SCHEDULE].present
    /\ cache[ENDPOINT_SCHEDULE].data = [local_mode |-> FALSE]

\* What set_param has done when its POST completes, the statuses in others
\* being those that give a generic HomevoltApiError.
ParamCallClassified(others) ==
    LET e == trace'[1]
        o == e.reply
        hasStatus == o.kind \in {"response", "ClientResponseError"}
    IN  /\ trace = <<>>
        /\ Len(trace') = 1
        /\ e.ev = "POST"
        /\ e.endpoint = "/params.json"
        /\ e.data = [k |-> op.key, v |-> op.value, store |-> "1"]
        /\ pend' = "none"
        /\ ret' = e.res
        /\ ret'.kind \in {"return", "raise"}
        /\ (hasStatus /\ o.status = 401) =>
              ret'.kind = "raise" /\ ret'.error = "HomevoltAuthError"
        /\ (hasStatus /\ o.status = 429) =>
              ret'.kind = "raise" /\ ret'.error = "HomevoltRateLimitError"
        /\ (hasStatus /\ o.status \in others) =>
              ret'.kind = "raise" /\ ret'.error = "HomevoltApiError"
        /\ o.kind \in {"TimeoutError", "ClientError"} =>
              ret'.kind = "raise" /\ ret'.error = "HomevoltConnectionError"
        /\ (o.kind = "response" /\ o.status \in 200 .. 299) => ret' = Return(None)

\* A step of a set_param call: its start or the completion of its POST.
ParamStep == op'.name = "set_param" /\ (pend = "POST_PARAMS" \/ pend' = "POST_PARAMS")

\* C18 as stated: set_param issues exactly one POST to /params.json with the
\* form {k: key, v: value, store: "1"} per call; 401 gives the auth error,
\* 429 the rate-limit error, any other non-2xx status, 500 and above
\* included, the generic API error, a timeout or connection failure the
\* connection error, with no second POST, and the cache is not touched.
C18_ParamOtherNon2xxIsApiError ==
    [][ParamStep =>
           /\ cache' = cache
           /\ pend = "POST_PARAMS" =>
                 ParamCallClassified((100 .. 599) \ ((200 .. 299) \cup {401, 429}))]_vars

\* C18, amended: as above, the other statuses that give the generic API error
\* being those of 400 or more; a non-2xx status below 400 ends the call
\* without an error.
C18_ParamOnePostClassified ==
    [][ParamStep =>
           /\ cache' = cache
           /\ pend = "POST_PARAMS" =>
                 /\ ParamCallClassified((400 .. 599) \ {401, 429})
                 /\ (trace'[1].reply.kind = "response" /\ trace'[1].reply.status < 400) =>
                       ret' = Return(None)]_vars

\* A write answered by 503 on a client whose cache holds the parameters.
C18_Witness ==
    /\ op.name = "set_param"
    /\ Finished
    /\ Len(trace) = 1
    /\ trace[1].reply.status = 503
    /\ ret.error = "HomevoltApiError"
    /\ cache[ENDPOINT_PARAMS].present

\* C19: over any sequence of requests and close() calls on one client, a
\* session supplied by the caller is never closed and stays the session of
\* the client; the sessions the client creates itself are closed once each,
\* in the order of their creation: all of them when a close() has just run
\* (so that a repeated close() closes nothing), and all but the one in use
\* while the client holds one, which the next close() closes.
C19_SessionClosedOnce ==
    /\ \A i \in DOMAIN session.closed : session.closed[i] = i
    /\ session._session = "supplied" => session.created = 0 /\ session.closed = <<>>
    /\ session._session = "own" => Len(session.closed) = session.created - 1
    /\ session._session = "None" => Len(session.closed) = session.created
    /\ op.name = "close" => Len(session.closed) = session.created
    /\ (op.name \notin {"idle", "close"} /\ ~(op.name = "set_schedule" /\ op.entries = <<>>))
          => session._session \in {"supplied", "own"}

\* A session created and closed, a second close(), then a request on a fresh
\* session which the third close() has closed.
C19_Witness ==
    /\ op.name = "close"
    /\ count.closes = 3
    /\ session.created = 2
    /\ session.closed = <<1, 2>>
    /\ session._session = "None"

\* C21: test_connection issues at most 2 GETs, all of /status.json; when
\* both attempts fail retryably it fails with HomevoltConnectionError after
\* the second attempt, with a single backoff sleep between the two.
C21_ProbeTwoAttempts ==
    op.name = "test_connection" =>
        /\ req.endpoint = "/status.json"
        /\ NumEv(rlog, "GET") + (IF pend = "GET" THEN 1 ELSE 0) <= 2
        /\ (pend = "none" /\ IsRetryableFailure(lastGet)) =>
              /\ Len(rlog) = 3
              /\ rlog[1].ev = "GET"
              /\ rlog[2].ev = "SLEEP"
              /\ rlog[3].ev = "GET"
              /\ ret.kind = "raise"
              /\ ret.error = "HomevoltConnectionError"

\* A timeout, then a 503.
C21_Witness ==
    /\ op.name = "test_connection"
    /\ Finished
    /\ lastGet.kind = "response"
    /\ lastGet.status = 503
    /\ ret.error = "HomevoltConnectionError"
    /\ ret.cause.id = 1
    /\ NumEv(rlog, "SLEEP") = 1

\* C23: within one _request exactly one backoff sleep separates two
\* consecutive attempts and none follows the last attempt; the sleep before
\* attempt n + 1 lasts between min(2^n, 30) and 1.5 * min(2^n, 30) seconds,
\* the delays before jitter being 1, 2, 4, 8, 16, 30, 30, ... (a delay d is
\* counted in half seconds).
C23_BackoffDelays ==
    op.name = "_request" =>
        /\ Sequential(rlog)
        /\ pend = "sleep" => EndsWithGet(rlog)
        /\ pend = "GET" => (rlog = <<>> \/ rlog[Len(rlog)].ev = "SLEEP")
        /\ Finished => (rlog = <<>> \/ EndsWithGet(rlog))
        /\ \A i \in DOMAIN rlog :
              rlog[i].ev = "SLEEP" =>
                  LET n == rlog[i].n
                      unjittered == IF n >= 5 THEN 30
                                    ELSE <<1, 2, 4, 8, 16>>[n + 1]
                  IN  /\ 2 * unjittered <= rlog[i].delay
                      /\ 2 * rlog[i].delay <= 3 * 2 * unjittered

\* Seven sleeps, the sixth of 45 s (the cap with the greatest jitter) and the
\* seventh of 30 s, then a last attempt without a sleep after it.
C23_Witness ==
    /\ op.name = "_request"
    /\ Finished
    /\ Len(rlog) = 15
    /\ rlog[12].ev = "SLEEP"
    /\ rlog[12].n = 5
    /\ rlog[12].delay = 90
    /\ rlog[14].delay = 60

\* The flags of a schedule entry in the order of the command line, with the
\* field each one carries.
EntryFlagOrder == <<"--from", "--to", "--min", "--max", "-s", "-c", "-d", "-l", "-x">>
EntryFlagField ==
    [i \in 1 .. 9 |->
        <<"from_time", "to_time", "min_soc", "max_soc", "setpoint", "max_charge",
          "max_discharge", "import_limit", "export_limit">>[i]]

\* C24: _build_schedule_command(entry) returns the type of the entry
\* followed by one flag, with its value, per field present in the entry and
\* nothing for an absent field, in the fixed order --from, --to, --min,
\* --max, -s, -c, -d, -l, -x whatever the order in which the fields were put
\* into the entry; an entry with a type only yields the type alone.
C24_BuildScheduleCommand ==
    op.name = "_build_schedule_command" =>
        LET present == {op.items[i][1] : i \in DOMAIN op.items}
            value(field) ==
                LET i == CHOOSE j \in DOMAIN op.items : op.items[j][1] = field
                IN  op.items[i][2]
            Present(i) == EntryFlagField[i] \in present
            flags == SelectSeq([i \in 1 .. 9 |-> i], Present)
            cmd == ret.value
        IN  /\ ret.kind = "return"
            /\ Len(cmd) = 1 + 2 * Len(flags)
            /\ cmd[1] = ToString(value("type"))
            /\ \A k \in DOMAIN flags :
                  /\ cmd[2 * k] = EntryFlagOrder[flags[k]]
                  /\ cmd[2 * k + 1] =
                        (IF EntryFlagField[flags[k]] \in {"from_time", "to_time"}
                         THEN value(EntryFlagField[flags[k]])
                         ELSE ToString(value(EntryFlagField[flags[k]])))
            /\ present = {"type"} => cmd = <<"3">>

\* An entry with all its fields, inserted in the reverse of the order of the
\* command line and the type last.
C24_Witness ==
    /\ op.name = "_build_schedule_command"
    /\ Len(op.items) = 10
    /\ op.items[1][1] = "export_limit"
    /\ op.items[10][1] = "type"
    /\ ret.value =
         <<"3", "--from", "2024-01-01T00:00:00", "--to", "2024-01-01T06:00:00", "--min", "0",
           "--max", "90", "-s", "3000", "-c", "4000", "-d", "5000", "-l", "6000", "-x", "7000">>

\* The step completes a _request_cached fetch of endpoint e whose live request
\* returned, and stores what it returned with the time of the step.
WritesEntry(e) ==
    /\ pend = "GET"
    /\ req.cached
    /\ req.endpoint = e
    /\ trace' # <<>>
    /\ LET f == trace'[Len(trace')]
       IN  /\ f.ev = "fetch"
           /\ f.endpoint = e
           /\ f.live.kind = "return"
           /\ cache'[e] = CacheEntry(f.live.value, now)

\* The step is clear_cache and leaves no entry.
EmptiesCache ==
    /\ op'.name = "clear_cache"
    /\ \A e \in Endpoints : cache'[e] = NoEntry

\* A finished _request_cached that failed live and answered from the cache did
\* so with the data of an entry younger than CACHE_EXPIRY.
ServedYoung ==
    (/\ op.name = "_request_cached"
     /\ Finished
     /\ trace[1].live.kind = "raise"
     /\ ret.kind = "return") =>
        LET e == cache[trace[1].endpoint]
        IN  /\ e.present
            /\ ret.value = e.data
            /\ trace[1].at < e.timestamp + Ticks(CACHE_EXPIRY)

\* C25: a cache entry changes only when a _request_cached for its endpoint
\* completes with a successful live GET, which stores the data and the time of
\* completion, or when clear_cache empties the cache; a failed request, served
\* from the cache or not, a direct _request and the passing of time leave
\* every entry, timestamp included, as it was.  Hence an entry written at t
\* is returned as fallback only for failures handled before t + 600 s.
C25_CacheWrittenOnlyBySuccess ==
    [][/\ \A e \in Endpoints : cache'[e] # cache[e] => (WritesEntry(e) \/ EmptiesCache)
       /\ ServedYoung']_vars

\* The third operation fails at the very age of CACHE_EXPIRY of an entry
\* written at time 0 that was served one tick earlier, and propagates.
C25_Witness ==
    /\ op.name = "_request_cached"
    /\ Finished
    /\ count.calls = 3
    /\ cache[trace[1].endpoint] = CacheEntry(DeviceBody(trace[1].endpoint, 1), 0)
    /\ trace[1].at = Ticks(CACHE_EXPIRY)
    /\ ret.kind = "raise"
    /\ ret.error = "HomevoltApiError"

\* C27: in a mode setter or set_schedule whose live schedule request has
\* failed with an error other than auth and rate limit, at a time when the
\* cache entry of /schedule.json is younger than 600 s, the value the gate
\* sees is the cached one and the schedule is fetched only that once: with a
\* cached local_mode true the console command is sent, with local_mode false
\* or absent the call ends in HomevoltNotLocalModeError without any POST.
C27_GateOnCachedValue ==
    LET e == cache[ENDPOINT_SCHEDULE]
    IN  (/\ op.name \in {"set_mode", "set_schedule"}
         /\ GateFetched
         /\ trace[1].live.kind = "raise"
         /\ trace[1].live.error \notin {"HomevoltAuthError", "HomevoltRateLimitError"}
         /\ e.present
         /\ trace[1].at - e.timestamp < Ticks(CACHE_EXPIRY)) =>
            /\ NumEv(trace, "fetch") = 1
            /\ trace[1].res = Return(e.data)
            /\ IF "local_mode" \in DOMAIN e.data /\ e.data["local_mode"] = TRUE
               THEN \/ pend = "POST" /\ Posts = {}
                    \/ Finished /\ Posts = {2} /\ ret.kind = "return"
               ELSE /\ Finished
                    /\ ret.kind = "raise"
                    /\ ret.error = "HomevoltNotLocalModeError"
                    /\ Posts = {}

\* A command sent on the word of an entry one tick short of its expiry, the
\* device having failed to answer four times in a row.
C27_Witness ==
    /\ op.name = "set_mode"
    /\ Finished
    /\ GateFetched
    /\ trace[1].live.kind = "raise"
    /\ trace[1].live.error = "HomevoltConnectionError"
    /\ NumEv(rlog, "GET") = MAX_RETRIES + 1
    /\ trace[1].at - cache[ENDPOINT_SCHEDULE].timestamp = Ticks(CACHE_EXPIRY) - 1
    /\ Posts = {2}
    /\ ret.kind = "return"

\* C28: when the console command of an entry of set_schedule fails, the call
\* is over with that error as its outcome, not a list of the replies so far;
\* the failed command is the last one sent, and the commands of the entries
\* before it, the sched_set of the first entry included, have been sent and
\* accepted, in order, with nothing sent afterwards to take them back.
C28_ScheduleNotAtomic ==
    (op.name = "set_schedule" /\ \E i \in Posts : trace[i].res.kind = "raise") =>
        LET i == CHOOSE k \in Posts : trace[k].res.kind = "raise"
        IN  /\ Finished
            /\ ret = trace[i].res
            /\ i = Len(trace)
            /\ op.i = i - 1
            /\ \A j \in 2 .. i :
                  /\ trace[j].ev = "POST"
                  /\ trace[j].cmd = ScheduleCommand(op.entries, j - 1)
                  /\ Head(trace[j].cmd) = (IF j = 2 THEN "sched_set" ELSE "sched_add")
                  /\ j < i => trace[j].res.kind = "return"

\* The device has taken the sched_set of the first entry and refused the
\* sched_add of the second.
C28_Witness ==
    /\ op.name = "set_schedule"
    /\ Finished
    /\ Len(op.entries) = 2
    /\ Len(trace) = 3
    /\ trace[2].res.kind = "return"
    /\ trace[3].res.kind = "raise"
    /\ ret.kind = "raise"
    /\ ret.error = "HomevoltApiError"

\* The first of two entries refused: the second is never sent.
C28_WitnessFirst ==
    /\ op.name = "set_schedule"
    /\ Finished
    /\ Len(op.entries) = 2
    /\ Len(trace) = 2
    /\ trace[2].res.kind = "raise"

\* The calls for endpoint e that have completed with a successful live request.
Writers(e) ==
    {i \in TaskIds : /\ tasks[i].state = "done"
                     /\ tasks[i].endpoint = e
                     /\ tasks[i].live.kind = "return"}

\* What call i has written.
Written(i) == CacheEntry(tasks[i].live.value, tasks[i].at)

\* The entry of e is absent while no call for e has succeeded, and otherwise
\* what the last of them to complete has written.
LastWriterWins(e) ==
    IF Writers(e) = {}
    THEN cache[e] = NoEntry
    ELSE LET last == CHOOSE i \in Writers(e) : \A j \in Writers(e) : tasks[j].order <= tasks[i].order
         IN  cache[e] = Written(last)

\* C26: under every interleaving of concurrent _request_cached calls, a step
\* of a call for E leaves the entries of the other endpoints as they were; an
\* entry is absent or the data of one successful call for its endpoint with
\* the time at which that call stored it; the timestamp of an entry never
\* decreases and an entry never disappears; at every moment, and so when all
\* calls have finished, the entry is the one of the successful call for its
\* endpoint that completed last.
C26_ConcurrentCacheWrites ==
    [][/\ \A i \in TaskIds : tasks'[i] # tasks[i] =>
              \A e \in Endpoints \ {tasks'[i].endpoint} : cache'[e] = cache[e]
       /\ \A e \in Endpoints :
              /\ cache'[e].present => \E i \in TaskIds : /\ tasks'[i].state = "done"
                                                         /\ tasks'[i].endpoint = e
                                                         /\ tasks'[i].live.kind = "return"
                                                         /\ cache'[e] = CacheEntry(tasks'[i].live.value, tasks'[i].at)
              /\ cache[e].present =>
                    cache'[e].present /\ cache'[e].timestamp >= cache[e].timestamp
              /\ LastWriterWins(e)']_vars

\* All calls have finished, for the same endpoint; the call whose request
\* was the first to be answered has been the last to store its data, after
\* the other had slept between two attempts.
C26_Witness ==
    /\ \A i \in TaskIds : tasks[i].state = "done" /\ tasks[i].endpoint = ENDPOINT_STATUS
    /\ tasks[1].live.kind = "return"
    /\ tasks[2].live.kind = "return"
    /\ tasks[1].attempt = 0
    /\ tasks[2].attempt = 1
    /\ tasks[1].order > tasks[2].order
    /\ cache[ENDPOINT_STATUS] = CacheEntry(TaskBody(1), tasks[1].at)
    /\ tasks[1].at > 0

\* The probe of the running or finished setup has failed with error e.
ProbeFailed(e) ==
    /\ op.name = "async_setup_entry"
    /\ trace # <<>>
    /\ trace[1].endpoint = ENDPOINT_STATUS
    /\ trace[1].live.kind = "raise"
    /\ trace[1].live.error = e

\* C22: when the probe of async_setup_entry fails with an authentication
\* error, setup ends in ConfigEntryAuthFailed; when it fails with a rate-limit
\* error or a connection error, setup ends in ConfigEntryNotReady; in each
\* case nothing is fetched after the probe, no coordinator is made or stored
\* on the entry, no platform is forwarded and no service is registered.
C22_SetupProbeFailure ==
    \A e \in {"HomevoltAuthError", "HomevoltRateLimitError", "HomevoltConnectionError"} :
        ProbeFailed(e) =>
            /\ Finished
            /\ Len(trace) = 1
            /\ ret.kind = "raise"
            /\ ret.error = (IF e = "HomevoltAuthError" THEN "ConfigEntryAuthFailed"
                            ELSE "ConfigEntryNotReady")
            /\ ~hass.coordinator.exists
            /\ ~hass.runtime_data
            /\ hass.platforms = {}
            /\ hass.services = {}
            /\ hass.state = "not_loaded"

\* The device has limited the rate of the probe.
C22_Witness ==
    /\ ProbeFailed("HomevoltRateLimitError")
    /\ Finished
    /\ ret.error = "ConfigEntryNotReady"
    /\ hass = NoHass

\* The device could not be reached in the two attempts of the probe.
C22_WitnessConnection ==
    /\ ProbeFailed("HomevoltConnectionError")
    /\ Finished
    /\ NumEv(rlog, "GET") = 2
    /\ ret.error = "ConfigEntryNotReady"

\* The device refused the credentials.
C22_WitnessAuth ==
    /\ ProbeFailed("HomevoltAuthError")
    /\ Finished
    /\ ret.error = "ConfigEntryAuthFailed"

AllEmpty == [k \in Range(AllDataKeys) |-> EmptyObj]

\* C29: with endpoints that answer or fail to connect in every combination,
\* get_all_data, on its own or as the refresh of the coordinator, returns a
\* mapping of the six keys: under each key what the getter returned, live or
\* from the cache, and an empty object where it failed; six empty objects
\* when every getter failed.  The refresh therefore never ends in
\* UpdateFailed, and the coordinator takes the mapping as its data.
C29_RefreshSurvivesOutage ==
    (op.name \in {"get_all_data", "_async_update_data"} /\ Finished) =>
        /\ Len(trace) = Len(AllDataKeys)
        /\ ret.kind = "return"
        /\ DOMAIN ret.value = Range(AllDataKeys)
        /\ \A i \in DOMAIN AllDataKeys :
              /\ trace[i].endpoint = AllDataEndpoints[i]
              /\ trace[i].live.kind = "raise" => trace[i].live.error = "HomevoltConnectionError"
              /\ ret.value[AllDataKeys[i]] =
                    (IF trace[i].res.kind = "return" THEN trace[i].res.value ELSE EmptyObj)
        /\ (\A i \in DOMAIN AllDataKeys : trace[i].res.kind = "raise") => ret.value = AllEmpty
        /\ op.name = "_async_update_data" =>
              hass.coordinator.has_data /\ hass.coordinator.data = ret.value

\* A refresh with the device unreachable and the cache expired: six empty
\* objects become the data of the coordinator.
C29_Witness ==
    /\ op.name = "_async_update_data"
    /\ Finished
    /\ \A i \in DOMAIN AllDataKeys :
          /\ trace[i].live.kind = "raise"
          /\ trace[i].live.error = "HomevoltConnectionError"
          /\ trace[i].res.kind = "raise"
    /\ ret = Return(AllEmpty)
    /\ hass.coordinator.data = AllEmpty

\* get_all_data on its own, with nothing cached and the device unreachable.
C29_WitnessAllData ==
    /\ op.name = "get_all_data"
    /\ Finished
    /\ \A i \in DOMAIN AllDataKeys : trace[i].live.kind = "raise"
    /\ ret = Return(AllEmpty)

\* A refresh with the device unreachable, answered from the cache throughout.
C29_WitnessCached ==
    /\ op.name = "_async_update_data"
    /\ Finished
    /\ \A i \in DOMAIN AllDataKeys :
          trace[i].live.kind = "raise" /\ trace[i].res.kind = "return"

\* The ecu_id an ems object carries, looked for where the device puts it: in
\* the first element of its "ems" list, else at its top level, else in the
\* first element when the object is itself a list.
EcuIdOf(ems) == _extract_ecu_id(ems)

\* The id that does not come from the device: from the host name, else homevolt.
FallbackId(c) ==
    IF Truthy(_extract_device_id_from_host(c._host))
    THEN _extract_device_id_from_host(c._host).str
    ELSE <<"h", "o", "m", "e", "v", "o", "l", "t">>

\* C30: the device id of a coordinator without refreshed data comes from the
\* ems object of its initial data; once a refresh has given it data, from the
\* ems object of these data alone: its ecu_id when it carries one, else the
\* id in the host name, else homevolt.  So after a refresh whose ems object
\* is empty the id is no longer the ecu_id of the initial data.
C30_DeviceIdFromLatestData ==
    LET c == hass.coordinator
    IN  c.exists =>
            LET ems == IF c.has_data THEN c.data["ems"] ELSE c._initial_data["ems"]
                initial == EcuIdOf(c._initial_data["ems"])
            IN  /\ device_id(c) = (IF Truthy(EcuIdOf(ems)) THEN EcuIdOf(ems).str
                                   ELSE FallbackId(c))
                /\ (c.has_data /\ c.data["ems"] = EmptyObj) =>
                      /\ device_id(c) = FallbackId(c)
                      /\ Truthy(initial) => device_id(c) # initial.str

\* The initial data named the device; the cache has expired and the latest
\* refresh could not fetch /ems.json: the id is now the one in the host name.
C30_Witness ==
    /\ op.name = "_async_update_data"
    /\ Finished
    /\ hass.coordinator.has_data
    /\ hass.coordinator.data["ems"] = EmptyObj
    /\ EcuIdOf(hass.coordinator._initial_data["ems"]) = Some(EcuNested)
    /\ device_id(hass.coordinator) = <<"a", "b", "c", "1", "2", "3">>

\* The first refresh of setup is under way: the id comes from the initial data.
C30_WitnessInitial ==
    /\ op.name = "async_setup_entry"
    /\ op.phase = "first_refresh"
    /\ ~hass.coordinator.has_data
    /\ device_id(hass.coordinator) = EcuTop

\* Neither the device nor the host name gives an id.
C30_WitnessDefault ==
    /\ hass.coordinator.has_data
    /\ hass.coordinator._host = HostAddress
    /\ device_id(hass.coordinator) = <<"h", "o", "m", "e", "v", "o", "l", "t">>

====
